---- MODULE Spec2Model ----
(***************************************************************************)
(* Meridian: the news / trend ranking and normalisation engine of the      *)
(* dashboard (src/components/NewsDashboard.tsx, TrendDetection.tsx).       *)
(*                                                                         *)
(* Strings are sequences of one-character strings, so that the regular     *)
(* expressions, toLowerCase and includes of the source are computed        *)
(* character by character.  JavaScript values that may be of several types *)
(* (a field of an item parsed from JSON) are tagged records.               *)
(***************************************************************************)
EXTENDS Integers, Sequences, FiniteSets, TLC

VARIABLES
    value,          \* parseRelativeTime: its argument (item.time)
    timeResult,     \* parseRelativeTime: its completion (a return value or a throw)
    tpc,            \* parseRelativeTime: "start" before the call, "parsed" after it
    minutes,        \* formatRelativeLabel: its argument
    relativeLabel,  \* formatRelativeLabel: its result
    lpc,            \* formatRelativeLabel: "start" before the call, "labelled" after it
    mentions,       \* parseMentions: its argument (a trend item's mentions text)
    mentionsValue,  \* parseMentions: its result
    mpc,            \* parseMentions: "start" before the call, "parsed" after it
    seoItem,        \* computeSeoScore: its argument (title and summary of an item)
    seoResult,      \* computeSeoScore: its completion
    spc,            \* computeSeoScore: "start" before the call, "scored" after it
    items,          \* decorateNews: its argument (a raw batch)
    decorated,      \* decorateNews: its completion
    dpc,            \* decorateNews: "start" before the call, "decorated" after it
    mounted,        \* NewsDashboard is rendered (App's currentView is DASHBOARD)
    inst,           \* the number of the component instance rendered last
    news,           \* useState: the decorated items on display
    strategy,       \* useState: the daily strategy on display, or "null"
    isLoading,      \* useState
    cacheNews,      \* localStorage 'meridian_cache_news'
    cacheStrategy,  \* localStorage 'meridian_cache_strategy'
    fetches,        \* the fetchData calls so far: the instance of each and where it stands
    liveNews,       \* the batch fetchTrendingNews delivered last, and the instance it went to
    filter,         \* NewsDashboard useState: the category filter
    searchTerm,     \* NewsDashboard useState: the search term
    sortMode,       \* NewsDashboard useState: 'RECENT', 'HOT' or 'SEO'
    filteredNews,   \* NewsDashboard useMemo: the filtered, sorted news of the last render
    trendsMounted,  \* TrendDetection is rendered (App's currentView is TRENDS)
    trends,         \* TrendDetection useState: the trend items
    sentimentFilter,\* TrendDetection useState: 'ALL' or a sentiment
    trendsSortMode, \* TrendDetection useState sortMode: 'RANK', 'VOLUME' or 'MOVE'
    filteredTrends, \* TrendDetection useMemo: the filtered, sorted trends of the last render
    called,         \* geminiService: the function called, "news" or "trends"
    reply,          \* geminiService: what the call to the model API meets
    fetched,        \* geminiService: the completion of the promise the function returned
    fpc,            \* geminiService: "start" before the call, "settled" after it
    trendsInst,     \* the number of the TrendDetection instance rendered last
    trendsLoading,  \* TrendDetection useState isLoading
    cacheTrends,    \* localStorage 'meridian_cache_trends'
    trendsFetches,  \* the handleRefresh calls of TrendDetection so far
    liveTrends,     \* what fetchCryptoTrends delivered last, and the instance it went to
    crashed,        \* an exception escaped a render: React has removed the whole tree
    libraryMounted, \* Library is rendered (App's currentView is LIBRARY)
    libraryItems,   \* Library useState items
    storedLibrary,  \* localStorage 'meridian_library'
    saved           \* the number of reports saved so far (each gets a fresh id)

timeVars == <<value, timeResult, tpc>>
labelVars == <<minutes, relativeLabel, lpc>>
mentionVars == <<mentions, mentionsValue, mpc>>
seoVars == <<seoItem, seoResult, spc>>
decorateVars == <<items, decorated, dpc>>
viewVars == <<mounted, inst, news, strategy, isLoading>>
storageVars == <<cacheNews, cacheStrategy>>
dashboardVars == <<viewVars, storageVars, fetches, liveNews>>
newsParamVars == <<filter, searchTerm, sortMode>>
newsViewVars == <<newsParamVars, filteredNews>>
trendsParamVars == <<sentimentFilter, trendsSortMode>>
trendsViewVars == <<trendsMounted, trends, trendsParamVars, filteredTrends>>
serviceVars == <<called, reply, fetched, fpc>>
trendsLifeVars == <<trendsInst, trendsLoading, cacheTrends, trendsFetches, liveTrends, crashed>>
libraryVars == <<libraryMounted, libraryItems, storedLibrary, saved>>
appVars == <<serviceVars, trendsLifeVars, libraryVars>>
vars == <<timeVars, labelVars, mentionVars, seoVars, decorateVars, dashboardVars,
          newsViewVars, trendsViewVars, appVars>>

(***************************************************************************)
(* JavaScript values and completions                                       *)
(***************************************************************************)
Undefined == [t |-> "undefined"]
Null == [t |-> "null"]
JsStr(s) == [t |-> "string", s |-> s]
JsNum(n) == [t |-> "number", n |-> n]
NaN == [t |-> "NaN"]
\* a number that need not be whole: the decimal num * 10^exp, where num is 0
\* (and exp 0) or ends in no zero, so that equal numbers are equal records
\* (the model computes with exact decimals where the source computes in doubles)
RECURSIVE Real(_, _)
Real(num, exp) ==
    IF num = 0 THEN [t |-> "real", num |-> 0, exp |-> 0]
    ELSE IF num % 10 = 0 THEN Real(num \div 10, exp + 1)
    ELSE [t |-> "real", num |-> num, exp |-> exp]

Return(v) == [kind |-> "return", v |-> v]
Throw == [kind |-> "throw", v |-> "TypeError"]

\* !value : undefined, null, "", 0 and NaN are falsy
Falsy(v) ==
    \/ v.t \in {"undefined", "null", "NaN"}
    \/ v.t = "string" /\ v.s = <<>>
    \/ v.t = "number" /\ v.n = 0

(***************************************************************************)
(* Characters and String.prototype methods                                 *)
(***************************************************************************)
Digits == {"0", "1", "2", "3", "4", "5", "6", "7", "8", "9"}
UpperCase == <<"A", "B", "C", "D", "E", "F", "G", "H", "I", "J", "K", "L", "M",
               "N", "O", "P", "Q", "R", "S", "T", "U", "V", "W", "X", "Y", "Z">>
LowerCase == <<"a", "b", "c", "d", "e", "f", "g", "h", "i", "j", "k", "l", "m",
               "n", "o", "p", "q", "r", "s", "t", "u", "v", "w", "x", "y", "z">>
\* \s of a regular expression, and what trim removes (the model's alphabet
\* has the blank and the line feed only)
WhiteSpace == {" ", "\n"}

DigitVal(c) ==
    CASE c = "0" -> 0 [] c = "1" -> 1 [] c = "2" -> 2 [] c = "3" -> 3 [] c = "4" -> 4
      [] c = "5" -> 5 [] c = "6" -> 6 [] c = "7" -> 7 [] c = "8" -> 8 [] c = "9" -> 9

UpperCaseLetters == {UpperCase[i] : i \in 1..26}
UpperToLower ==
    [c \in UpperCaseLetters |-> LowerCase[CHOOSE i \in 1..26 : UpperCase[i] = c]]

ToLowerChar(c) == IF c \in UpperCaseLetters THEN UpperToLower[c] ELSE c

toLowerCase(s) == [i \in 1..Len(s) |-> ToLowerChar(s[i])]

\* s.startsWith(w, k - 1): w occurs in s at (1-based) position k
StartsWithAt(s, k, w) ==
    /\ k >= 1
    /\ k + Len(w) - 1 <= Len(s)
    /\ \A j \in 1..Len(w) : s[k + j - 1] = w[j]

includes(s, w) == \E k \in 1..(Len(s) + 1) : StartsWithAt(s, k, w)

\* parseInt(digits, 10) of a non-empty run of decimal digits
RECURSIVE parseInt(_)
parseInt(ds) ==
    IF ds = <<>> THEN 0
    ELSE 10 * parseInt(SubSeq(ds, 1, Len(ds) - 1)) + DigitVal(ds[Len(ds)])

\* Math.round of the non-negative rational num / den: floor(num/den + 1/2)
MathRound(num, den) == (2 * num + den) \div (2 * den)

Min(a, b) == IF a <= b THEN a ELSE b
Max(a, b) == IF a >= b THEN a ELSE b

\* \w of a regular expression
WordChars ==
    {UpperCase[i] : i \in 1..26} \cup {LowerCase[i] : i \in 1..26} \cup Digits \cup {"_"}

\* \b just before position p of s (p = Len(s) + 1: at the end): exactly one of
\* the characters on its two sides is a word character
WordBoundary(s, p) ==
    LET before == p > 1 /\ s[p - 1] \in WordChars
        after == p <= Len(s) /\ s[p] \in WordChars
    IN  before # after

\* /\b(w1|w2|...)\b/i.test(s), for lower-case words
TestWholeWord(s, words) ==
    LET l == toLowerCase(s)
    IN  \E k \in 1..Len(l) :
            /\ WordBoundary(l, k)
            /\ \E a \in 1..Len(words) :
                  /\ StartsWithAt(l, k, words[a])
                  /\ WordBoundary(l, k + Len(words[a]))

\* Number(v), for the values a JSON field holds (the model's strings hold no
\* sign, exponent or decimal point: a string is a number iff it is all digits)
Number(v) ==
    CASE v.t = "undefined" -> NaN
      [] v.t = "null" -> JsNum(0)
      [] v.t = "number" -> v
      [] v.t = "NaN" -> NaN
      [] v.t = "string" ->
            IF \A i \in 1..Len(v.s) : v.s[i] \in WhiteSpace THEN JsNum(0)
            ELSE IF \A i \in 1..Len(v.s) : v.s[i] \in Digits THEN JsNum(parseInt(v.s))
            ELSE NaN

(***************************************************************************)
(* Words of the source, as character sequences                             *)
(***************************************************************************)
W_minute == <<"m", "i", "n", "u", "t", "e">>
W_min == <<"m", "i", "n">>
W_hour == <<"h", "o", "u", "r">>
W_hr == <<"h", "r">>
W_day == <<"d", "a", "y">>
W_d == <<"d">>
W_h == <<"h">>
W_m == <<"m">>
W_yesterday == <<"y", "e", "s", "t", "e", "r", "d", "a", "y">>

(***************************************************************************)
(* parseRelativeTime                                                       *)
(***************************************************************************)
\* the alternation (minute|min|hour|hr|day|d|h|m), in the order it is tried
UnitAlternatives == <<W_minute, W_min, W_hour, W_hr, W_day, W_d, W_h, W_m>>

\* the last position of the longest run of digits that starts at i
RECURSIVE DigitRunEnd(_, _)
DigitRunEnd(s, i) ==
    IF i < Len(s) /\ s[i + 1] \in Digits THEN DigitRunEnd(s, i + 1) ELSE i

\* the first position >= k that holds no white space
RECURSIVE SkipSpaces(_, _)
SkipSpaces(s, k) ==
    IF k <= Len(s) /\ s[k] \in WhiteSpace THEN SkipSpaces(s, k + 1) ELSE k

NoMatch == [ok |-> FALSE, amount |-> <<>>, unit |-> <<>>]

\* /(\d+)\s*(minute|min|hour|hr|day|d|h|m)/ anchored at position i.  \d+ and
\* \s* are greedy; giving back a digit or a blank leaves a digit or a blank
\* where the unit has to start, so backtracking never finds another match.
MatchAt(s, i) ==
    IF s[i] \notin Digits THEN NoMatch
    ELSE LET e == DigitRunEnd(s, i)
             k == SkipSpaces(s, e + 1)
             alts == {a \in 1..Len(UnitAlternatives) : StartsWithAt(s, k, UnitAlternatives[a])}
         IN  IF alts = {} THEN NoMatch
             ELSE [ok |-> TRUE,
                   amount |-> SubSeq(s, i, e),
                   unit |-> UnitAlternatives[CHOOSE a \in alts : \A b \in alts : a <= b]]

\* cleaned.match(...): the leftmost match, or null
numberMatch(s) ==
    LET starts == {i \in 1..Len(s) : MatchAt(s, i).ok}
    IN  IF starts = {} THEN NoMatch
        ELSE MatchAt(s, CHOOSE i \in starts : \A j \in starts : i <= j)

parseRelativeTimeMutFallback(v) ==
    IF Falsy(v) THEN Return(60 * 24)
    ELSE IF v.t # "string" THEN Throw
    ELSE LET cleaned == toLowerCase(v.s)
             m == numberMatch(cleaned)
             amount == parseInt(m.amount)
         IN  IF m.ok /\ includes(cleaned, W_min) THEN Return(amount)
             ELSE IF m.ok /\ (includes(cleaned, W_hour) \/ includes(cleaned, W_hr)
                                \/ includes(cleaned, W_h)) THEN Return(amount * 60)
             ELSE IF m.ok /\ (includes(cleaned, W_day) \/ includes(cleaned, W_d))
                  THEN Return(amount * 60 * 24)
             ELSE IF includes(cleaned, W_yesterday) THEN Return(60 * 12)
             ELSE Return(60 * 24)

parseRelativeTime(v) ==
    IF Falsy(v) THEN Return(60 * 24)                  \* default 1 day
    ELSE IF v.t # "string" THEN Throw                 \* value.toLowerCase is not a function
    ELSE LET cleaned == toLowerCase(v.s)
             m == numberMatch(cleaned)
             amount == parseInt(m.amount)
         IN  IF m.ok /\ includes(cleaned, W_min) THEN Return(amount)
             ELSE IF m.ok /\ (includes(cleaned, W_hour) \/ includes(cleaned, W_hr)
                                \/ includes(cleaned, W_h)) THEN Return(amount * 60)
             ELSE IF m.ok /\ (includes(cleaned, W_day) \/ includes(cleaned, W_d))
                  THEN Return(amount * 60 * 24)
             ELSE IF includes(cleaned, W_yesterday) THEN Return(60 * 24)
             ELSE Return(60 * 12)                     \* fallback half-day

(***************************************************************************)
(* formatRelativeLabel                                                     *)
(***************************************************************************)
formatRelativeLabelMutFloor(n) ==
    IF n < 1 THEN "Just now"
    ELSE IF n < 60 THEN ToString(n) \o "m ago"
    ELSE LET hours == n \div 60
         IN  IF hours < 24 THEN ToString(hours) \o "h ago"
             ELSE ToString(hours \div 24) \o "d ago"

formatRelativeLabel(n) ==
    IF n < 1 THEN "Just now"
    ELSE IF n < 60 THEN ToString(n) \o "m ago"
    ELSE LET hours == MathRound(n, 60)
         IN  IF hours < 24 THEN ToString(hours) \o "h ago"
             ELSE LET days == MathRound(hours, 24)
                  IN  ToString(days) \o "d ago"

(***************************************************************************)
(* computeSeoScore                                                         *)
(***************************************************************************)
TitleKeywords ==
    << <<"h", "o", "w">>, <<"w", "h", "y">>, <<"g", "u", "i", "d", "e">>,
       <<"r", "e", "p", "o", "r", "t">>, <<"u", "p", "d", "a", "t", "e">> >>
SummaryKeywords ==
    << <<"d", "e", "f", "i">>, <<"l", "a", "y", "e", "r", " ", "2">>,
       <<"r", "e", "g", "u", "l", "a", "t", "i", "o", "n">>,
       <<"f", "u", "n", "d", "i", "n", "g">>, <<"t", "o", "k", "e", "n">> >>

\* v.length: a string has one, a number has none (undefined, and every
\* comparison with undefined is false: modelled as -1), undefined and null throw
HasProperties(v) == v.t \notin {"undefined", "null"}
LengthOf(v) == IF v.t = "string" THEN Len(v.s) ELSE 0 - 1

\* String(v) as a regular expression's test sees it: the digits of a number
\* match none of the keywords
TextOf(v) == IF v.t = "string" THEN v.s ELSE <<>>

computeSeoScoreMutExclusive(item) ==
    IF ~HasProperties(item.title) \/ ~HasProperties(item.summary) THEN Throw
    ELSE LET titleLength == LengthOf(item.title)
             summaryLength == LengthOf(item.summary)
             score == 40
                 + (IF titleLength > 45 /\ titleLength < 70 THEN 20 ELSE 0)
                 + (IF summaryLength > 140 /\ summaryLength < 320 THEN 25 ELSE 0)
                 + (IF TestWholeWord(TextOf(item.title), TitleKeywords) THEN 5 ELSE 0)
                 + (IF TestWholeWord(TextOf(item.summary), SummaryKeywords) THEN 5 ELSE 0)
         IN  Return(Min(100, Max(30, MathRound(score, 1))))

\* a keyword counts only at the very start of the title
computeSeoScoreMutAnchored(item) ==
    IF ~HasProperties(item.title) \/ ~HasProperties(item.summary) THEN Throw
    ELSE LET titleLength == LengthOf(item.title)
             summaryLength == LengthOf(item.summary)
             score == 40
                 + (IF titleLength >= 45 /\ titleLength <= 70 THEN 20 ELSE 0)
                 + (IF summaryLength >= 140 /\ summaryLength <= 320 THEN 25 ELSE 0)
                 + (IF \E a \in 1..Len(TitleKeywords) :
                          StartsWithAt(toLowerCase(TextOf(item.title)), 1, TitleKeywords[a])
                    THEN 5 ELSE 0)
                 + (IF TestWholeWord(TextOf(item.summary), SummaryKeywords) THEN 5 ELSE 0)
         IN  Return(Min(100, Max(30, MathRound(score, 1))))

computeSeoScore(item) ==
    IF ~HasProperties(item.title) \/ ~HasProperties(item.summary) THEN Throw
    ELSE LET titleLength == LengthOf(item.title)
             summaryLength == LengthOf(item.summary)
             score == 40
                 + (IF titleLength >= 45 /\ titleLength <= 70 THEN 20 ELSE 0)
                 + (IF summaryLength >= 140 /\ summaryLength <= 320 THEN 25 ELSE 0)
                 + (IF TestWholeWord(TextOf(item.title), TitleKeywords) THEN 5 ELSE 0)
                 + (IF TestWholeWord(TextOf(item.summary), SummaryKeywords) THEN 5 ELSE 0)
         IN  Return(Min(100, Max(30, MathRound(score, 1))))

(***************************************************************************)
(* decorateNews                                                            *)
(***************************************************************************)
\* Number(item.trendingScore) || fallback
hotScoreMutNullish(trendingScore, fallback) ==
    LET x == Number(trendingScore)
    IN  IF x.t = "NaN" THEN fallback ELSE x.n

\* the fallback replaced by 0
hotScoreMutNoFallback(trendingScore, fallback) ==
    LET x == Number(trendingScore)
    IN  IF Falsy(x) THEN 0 ELSE x.n

hotScore(trendingScore, fallback) ==
    LET x == Number(trendingScore)
    IN  IF Falsy(x) THEN fallback ELSE x.n

\* the body of the map callback, for the item at 0-based index idx of n items
DecorateItem(item, idx, n) ==
    LET parsed == parseRelativeTime(item.time)
        seo == computeSeoScore(item)
    IN  IF parsed.kind = "throw" \/ seo.kind = "throw" THEN Throw
        ELSE Return([title |-> item.title,
                     time |-> item.time,
                     summary |-> item.summary,
                     trendingScore |-> item.trendingScore,
                     category |-> item.category,
                     freshnessMinutes |-> parsed.v,
                     hotScore |-> hotScore(item.trendingScore, n - idx),
                     seoScore |-> seo.v,
                     relativeLabel |-> formatRelativeLabel(parsed.v)])

\* items.map(...): an exception of one callback ends the whole map
decorateNews(batch) ==
    IF \E i \in 1..Len(batch) : DecorateItem(batch[i], i - 1, Len(batch)).kind = "throw"
    THEN Throw
    ELSE Return([i \in 1..Len(batch) |-> DecorateItem(batch[i], i - 1, Len(batch)).v])

(***************************************************************************)
(* parseMentions (the magnitude parser)                                    *)
(***************************************************************************)
NumberChars == Digits \cup {"."}

\* m.replace(/,/g, '')
RECURSIVE StripCommas(_)
StripCommas(s) ==
    IF s = <<>> THEN <<>>
    ELSE IF Head(s) = "," THEN StripCommas(Tail(s))
    ELSE <<Head(s)>> \o StripCommas(Tail(s))

\* the last position of the longest run of characters of C that starts at i
RECURSIVE RunEnd(_, _, _)
RunEnd(s, i, C) ==
    IF i < Len(s) /\ s[i + 1] \in C THEN RunEnd(s, i + 1, C) ELSE i

\* s.match(/[\d.]+/): the leftmost longest run of digits and dots, or null
NumberToken(s) ==
    LET starts == {i \in 1..Len(s) : s[i] \in NumberChars}
    IN  IF starts = {} THEN [ok |-> FALSE, text |-> <<>>]
        ELSE LET i == CHOOSE a \in starts : \A b \in starts : a <= b
             IN  [ok |-> TRUE, text |-> SubSeq(s, i, RunEnd(s, i, NumberChars))]

RECURSIVE Pow10(_)
Pow10(n) == IF n = 0 THEN 1 ELSE 10 * Pow10(n - 1)

\* parseFloat of a run of digits and dots: the longest prefix that is a decimal
\* literal (digits, digits.digits, digits. or .digits), NaN when there is none
parseFloat(tok) ==
    LET intEnd == IF tok # <<>> /\ tok[1] \in Digits THEN RunEnd(tok, 1, Digits) ELSE 0
        hasDot == intEnd < Len(tok) /\ tok[intEnd + 1] = "."
        fracEnd == IF hasDot /\ intEnd + 1 < Len(tok) /\ tok[intEnd + 2] \in Digits
                   THEN RunEnd(tok, intEnd + 2, Digits)
                   ELSE intEnd + 1
        int == SubSeq(tok, 1, intEnd)
        frac == IF hasDot THEN SubSeq(tok, intEnd + 2, fracEnd) ELSE <<>>
    IN  IF int = <<>> /\ frac = <<>> THEN NaN
        ELSE Real(parseInt(int) * Pow10(Len(frac)) + parseInt(frac), 0 - Len(frac))

\* x * 10^e in floating point: NaN times anything is NaN
TimesPow10(x, e) == IF x.t = "NaN" THEN NaN ELSE Real(x.num, x.exp + e)

\* /k/i.test(m)
TestCaseInsensitive(s, w) == includes(toLowerCase(s), w)

parseMentions(m) ==
    LET match == NumberToken(StripCommas(m))
    IN  IF ~match.ok THEN Real(0, 0)
        ELSE LET v == parseFloat(match.text)
             IN  IF TestCaseInsensitive(m, <<"k">>) THEN TimesPow10(v, 3)       \* value * 1_000
                 ELSE IF TestCaseInsensitive(m, <<"m">>) THEN TimesPow10(v, 6)  \* value * 1_000_000
                 ELSE v

(***************************************************************************)
(* Arrays: filter, spread and sort                                         *)
(*                                                                         *)
(* The arrays of one computation are the entries of a heap (a sequence of  *)
(* sequences), an array value is the index of its entry: filter and spread *)
(* make a new entry, sort rewrites the entry it is given.                  *)
(***************************************************************************)
\* the elements of arr at the positions from i on where keep holds, in their order
RECURSIVE Kept(_, _, _)
Kept(arr, keep, i) ==
    IF i > Len(arr) THEN <<>>
    ELSE (IF keep[i] THEN <<arr[i]>> ELSE <<>>) \o Kept(arr, keep, i + 1)

\* arr.filter(callback): a new array of the elements the callback accepts;
\* keep[i] is what the callback returns for the element at position i
ArrayFilter(heap, r, keep) ==
    [heap |-> Append(heap, Kept(heap[r], keep, 1)), ref |-> Len(heap) + 1]

\* [...arr] written as an alias of arr instead of a copy
ArraySpreadMutAlias(heap, r) == [heap |-> heap, ref |-> r]

\* [...arr]: a new array with the same elements
ArraySpread(heap, r) == [heap |-> Append(heap, heap[r]), ref |-> Len(heap) + 1]

\* the sign Array.prototype.sort reads off a comparator's result: NaN counts as +0
SortOrder(v) ==
    IF v.t = "NaN" THEN 0
    ELSE LET n == IF v.t = "real" THEN v.num ELSE v.n
         IN  IF n < 0 THEN -1 ELSE IF n > 0 THEN 1 ELSE 0

\* sgn (the signs of the comparator on the elements at positions 1..n) is a
\* consistent comparator in the sense of ECMAScript
ConsistentComparator(n, sgn) ==
    /\ \A a \in 1..n : sgn[a, a] = 0
    /\ \A a, b \in 1..n : sgn[a, b] = 0 - sgn[b, a]
    /\ \A a, b, c \in 1..n :
          \A o \in {-1, 0, 1} : (sgn[a, b] = o /\ sgn[b, c] = o) => sgn[a, c] = o

\* insertion that puts a position before the positions it compares equal to
InsertIndexMutUnstable(t, x, sgn) ==
    LET less == {k \in 1..Len(t) : sgn[t[k], x] < 0}
        at == IF less = {} THEN 0 ELSE CHOOSE k \in less : \A j \in less : j <= k
    IN  SubSeq(t, 1, at) \o <<x>> \o SubSeq(t, at + 1, Len(t))

\* position x inserted into the sorted positions t, behind every position it
\* does not sort before: the step of a stable insertion sort
RECURSIVE InsertIndex(_, _, _)
InsertIndex(t, x, sgn) ==
    IF t = <<>> THEN <<x>>
    ELSE IF sgn[t[Len(t)], x] > 0
         THEN Append(InsertIndex(SubSeq(t, 1, Len(t) - 1), x, sgn), t[Len(t)])
         ELSE Append(t, x)

\* insertion sort that takes the positions from the last to the first
RECURSIVE StableSortMutFromEnd(_, _)
StableSortMutFromEnd(ixs, sgn) ==
    IF ixs = <<>> THEN <<>>
    ELSE InsertIndex(StableSortMutFromEnd(Tail(ixs), sgn), Head(ixs), sgn)

\* the positions ixs in sorted order, positions that compare equal in the order of ixs
RECURSIVE StableSort(_, _)
StableSort(ixs, sgn) ==
    IF ixs = <<>> THEN <<>>
    ELSE InsertIndex(StableSort(SubSeq(ixs, 1, Len(ixs) - 1), sgn), ixs[Len(ixs)], sgn)

Orders(n) == {p \in [1..n -> 1..n] : \A i, j \in 1..n : p[i] = p[j] => i = j}

\* the orders sort may leave n elements in: the one stable sorted order when the
\* comparator is consistent, an order the implementation chooses when it is not
SortOutcomes(n, sgn) ==
    IF ConsistentComparator(n, sgn)
    THEN {StableSort([i \in 1..n |-> i], sgn)}
    ELSE Orders(n)

\* arr.sort(comparator): sorts arr in place and returns arr; cmp[a, b] is what
\* the comparator returns for the elements at positions a and b
ArraySort(heap, r, cmp) ==
    LET arr == heap[r]
        n == Len(arr)
        sgn == [a \in 1..n, b \in 1..n |-> SortOrder(cmp[a, b])]
    IN  {[heap |-> [heap EXCEPT ![r] = [k \in 1..n |-> arr[p[k]]]], ref |-> r] :
            p \in SortOutcomes(n, sgn)}

(***************************************************************************)
(* filteredNews                                                            *)
(***************************************************************************)
\* the callback of news.filter, with the term in lower case, on a string that
\* is not lower-cased first
newsKeepsMutCaseSensitive(item, flt, term) ==
    LET matchesFilter == flt = "All" \/ item.category = flt
        matchesSearch ==
            \/ includes(item.title.s, term)
            \/ includes(item.summary.s, term)
    IN  matchesFilter /\ matchesSearch

\* the callback of news.filter, for an item whose title and summary are strings
newsKeeps(item, flt, term) ==
    LET matchesFilter == flt = "All" \/ item.category = flt
        matchesSearch ==
            \/ includes(toLowerCase(item.title.s), term)
            \/ includes(toLowerCase(item.summary.s), term)
    IN  matchesFilter /\ matchesSearch

\* HOT and SEO without the || of their second key
sortersMutNoTieBreak(mode, a, b) ==
    CASE mode = "RECENT" -> JsNum(a.freshnessMinutes - b.freshnessMinutes)
      [] mode = "HOT" -> JsNum(b.hotScore - a.hotScore)
      [] mode = "SEO" -> JsNum(b.seoScore - a.seoScore)

\* SEO with a and b exchanged in its first key
sortersMutSeoAscending(mode, a, b) ==
    CASE mode = "RECENT" -> JsNum(a.freshnessMinutes - b.freshnessMinutes)
      [] mode = "HOT" ->
            LET d == b.hotScore - a.hotScore
            IN  JsNum(IF d # 0 THEN d ELSE a.freshnessMinutes - b.freshnessMinutes)
      [] mode = "SEO" ->
            LET d == a.seoScore - b.seoScore
            IN  JsNum(IF d # 0 THEN d ELSE a.freshnessMinutes - b.freshnessMinutes)

\* sorters[mode](a, b); x || y is y when x is 0
sorters(mode, a, b) ==
    CASE mode = "RECENT" -> JsNum(a.freshnessMinutes - b.freshnessMinutes)
      [] mode = "HOT" ->
            LET d == b.hotScore - a.hotScore
            IN  JsNum(IF d # 0 THEN d ELSE a.freshnessMinutes - b.freshnessMinutes)
      [] mode = "SEO" ->
            LET d == b.seoScore - a.seoScore
            IN  JsNum(IF d # 0 THEN d ELSE a.freshnessMinutes - b.freshnessMinutes)

\* the body of the useMemo on the array newsArr: what it may leave in newsArr
\* and what it returns
filteredNewsRuns(newsArr, flt, search, mode) ==
    LET term == toLowerCase(search)
        base == ArrayFilter(<<newsArr>>, 1,
                            [i \in 1..Len(newsArr) |-> newsKeeps(newsArr[i], flt, term)])
        copy == ArraySpread(base.heap, base.ref)
        arr == copy.heap[copy.ref]
        sorted == ArraySort(copy.heap, copy.ref,
                            [a \in 1..Len(arr), b \in 1..Len(arr) |-> sorters(mode, arr[a], arr[b])])
    IN  {[input |-> s.heap[1], output |-> s.heap[s.ref]] : s \in sorted}

(***************************************************************************)
(* filteredTrends                                                          *)
(***************************************************************************)
Abs(x) == IF x < 0 THEN 0 - x ELSE x

\* x - y in floating point: NaN when either is NaN
Minus(x, y) ==
    IF x.t = "NaN" \/ y.t = "NaN" THEN NaN
    ELSE LET e == Min(x.exp, y.exp)
         IN  Real(x.num * Pow10(x.exp - e) - y.num * Pow10(y.exp - e), e)

\* the comparator of the sort of filteredTrends
trendsComparatorMutAscending(mode, a, b) ==
    IF mode = "RANK" THEN JsNum(a.rank - b.rank)
    ELSE IF mode = "VOLUME" THEN Minus(parseMentions(a.mentions), parseMentions(b.mentions))
    ELSE JsNum(Abs(b.change) - Abs(a.change))

trendsComparator(mode, a, b) ==
    IF mode = "RANK" THEN JsNum(a.rank - b.rank)
    ELSE IF mode = "VOLUME" THEN Minus(parseMentions(b.mentions), parseMentions(a.mentions))
    ELSE JsNum(Abs(b.change) - Abs(a.change))

\* the body of the useMemo on the array trendsArr: what it may leave in
\* trendsArr and what it returns
filteredTrendsRuns(trendsArr, sentiment, mode) ==
    LET base == IF sentiment # "ALL"
                THEN ArrayFilter(<<trendsArr>>, 1,
                                 [i \in 1..Len(trendsArr) |-> trendsArr[i].sentiment = sentiment])
                ELSE [heap |-> <<trendsArr>>, ref |-> 1]
        copy == ArraySpread(base.heap, base.ref)
        arr == copy.heap[copy.ref]
        sorted == ArraySort(copy.heap, copy.ref,
                            [a \in 1..Len(arr), b \in 1..Len(arr) |->
                                trendsComparator(mode, arr[a], arr[b])])
    IN  {[input |-> s.heap[1], output |-> s.heap[s.ref]] : s \in sorted}

(***************************************************************************)
(* services/geminiService.ts: the replies of the model API as JSON         *)
(***************************************************************************)
JsArray(a) == [t |-> "array", a |-> a]
\* an object: its members, each a pair of a key and a value, in their order
JsObject(p) == [t |-> "object", p |-> p]

\* String.prototype.trim
RECURSIVE TrimEnd(_)
TrimEnd(s) ==
    IF s # <<>> /\ s[Len(s)] \in WhiteSpace THEN TrimEnd(SubSeq(s, 1, Len(s) - 1)) ELSE s

trim(s) == TrimEnd(SubSeq(s, SkipSpaces(s, 1), Len(s)))

\* three grave accents (a string of the module cannot hold that character:
\* the model writes ~ for it)
Fence == <<"~", "~", "~">>
FenceJson == Fence \o <<"j", "s", "o", "n">>

\* text.replace removes every match of a fence that opens a json block with
\* an optional line feed after it, or of an optional line feed and a fence;
\* from position i on, and at each position the first alternative is tried first
RECURSIVE StripFences(_, _)
StripFences(s, i) ==
    IF i > Len(s) THEN <<>>
    ELSE IF StartsWithAt(s, i, FenceJson)
         THEN StripFences(s, i + 7 + (IF StartsWithAt(s, i + 7, <<"\n">>) THEN 1 ELSE 0))
    ELSE IF StartsWithAt(s, i, <<"\n">> \o Fence) THEN StripFences(s, i + 4)
    ELSE IF StartsWithAt(s, i, Fence) THEN StripFences(s, i + 3)
    ELSE <<s[i]>> \o StripFences(s, i + 1)

NoValue == [ok |-> FALSE]
Parsed(v, next) == [ok |-> TRUE, v |-> v, next |-> next]

\* the position of the quote that closes the string opened before i, or 0:
\* a string holds no line break (the model's texts hold no escapes)
RECURSIVE ClosingQuote(_, _)
ClosingQuote(s, i) ==
    IF i > Len(s) \/ s[i] = "\n" THEN 0
    ELSE IF s[i] = "\"" THEN i
    ELSE ClosingQuote(s, i + 1)

\* the members with the member of this key set to v: a key that occurs again
\* keeps its place and takes the later value
WithMember(p, key, v) ==
    IF \E j \in 1..Len(p) : p[j][1] = key
    THEN [j \in 1..Len(p) |-> IF p[j][1] = key THEN <<key, v>> ELSE p[j]]
    ELSE Append(p, <<key, v>>)

\* the JSON grammar: a value at position i, after white space; the elements
\* of an array after "[" or ","; the members of an object after "{" or ","
RECURSIVE JsonValueAt(_, _)
RECURSIVE JsonElements(_, _, _)
RECURSIVE JsonMembers(_, _, _)
JsonValueAt(s, i) ==
    LET k == SkipSpaces(s, i)
    IN  IF k > Len(s) THEN NoValue
        ELSE IF StartsWithAt(s, k, <<"n", "u", "l", "l">>) THEN Parsed(Null, k + 4)
        ELSE IF s[k] \in Digits
             THEN LET e == DigitRunEnd(s, k)
                  IN  IF s[k] = "0" /\ e > k THEN NoValue
                      ELSE Parsed(JsNum(parseInt(SubSeq(s, k, e))), e + 1)
        ELSE IF s[k] = "\""
             THEN LET q == ClosingQuote(s, k + 1)
                  IN  IF q = 0 THEN NoValue ELSE Parsed(JsStr(SubSeq(s, k + 1, q - 1)), q + 1)
        ELSE IF s[k] = "["
             THEN LET j == SkipSpaces(s, k + 1)
                  IN  IF StartsWithAt(s, j, <<"]">>) THEN Parsed(JsArray(<<>>), j + 1)
                      ELSE JsonElements(s, k + 1, <<>>)
        ELSE IF s[k] = "{"
             THEN LET j == SkipSpaces(s, k + 1)
                  IN  IF StartsWithAt(s, j, <<"}">>) THEN Parsed(JsObject(<<>>), j + 1)
                      ELSE JsonMembers(s, k + 1, <<>>)
        ELSE NoValue

JsonElements(s, i, acc) ==
    LET e == JsonValueAt(s, i)
    IN  IF ~e.ok THEN NoValue
        ELSE LET k == SkipSpaces(s, e.next)
             IN  IF StartsWithAt(s, k, <<",">>) THEN JsonElements(s, k + 1, Append(acc, e.v))
                 ELSE IF StartsWithAt(s, k, <<"]">>) THEN Parsed(JsArray(Append(acc, e.v)), k + 1)
                 ELSE NoValue

JsonMembers(s, i, acc) ==
    LET k == SkipSpaces(s, i)
        key == IF StartsWithAt(s, k, <<"\"">>) THEN JsonValueAt(s, k) ELSE NoValue
    IN  IF ~key.ok THEN NoValue
        ELSE LET c == SkipSpaces(s, key.next)
                 m == IF StartsWithAt(s, c, <<":">>) THEN JsonValueAt(s, c + 1) ELSE NoValue
             IN  IF ~m.ok THEN NoValue
                 ELSE LET d == SkipSpaces(s, m.next)
                          members == WithMember(acc, key.v.s, m.v)
                      IN  IF StartsWithAt(s, d, <<",">>) THEN JsonMembers(s, d + 1, members)
                          ELSE IF StartsWithAt(s, d, <<"}">>) THEN Parsed(JsObject(members), d + 1)
                          ELSE NoValue

\* JSON.parse(text): the value, or a SyntaxError
JsonParseText(s) ==
    LET r == JsonValueAt(s, 1)
    IN  IF r.ok /\ SkipSpaces(s, r.next) > Len(s) THEN Return(r.v) ELSE Throw

\* callGemini: getApiKey throws without a key, fetch rejects on a network
\* error, a response that is not ok throws, response.json() rejects on a
\* body that is no JSON; otherwise the data of the response
callGemini(r) ==
    IF r.kind \in {"noKey", "networkError", "notOk", "badBody"} THEN Throw ELSE Return(r)

\* extractText(data): the empty string without candidates, else the trimmed
\* text of the parts
extractText(data) == IF data.kind = "noCandidates" THEN <<>> ELSE trim(data.text)

\* item.url, and the own enumerable properties a spread copies
UrlOf(item) ==
    IF item.t = "object" /\ \E j \in 1..Len(item.p) : item.p[j][1] = <<"u", "r", "l">>
    THEN (CHOOSE m \in {item.p[j] : j \in 1..Len(item.p)} : m[1] = <<"u", "r", "l">>)[2]
    ELSE Undefined

DecimalDigits == <<"0", "1", "2", "3", "4", "5", "6", "7", "8", "9">>
RECURSIVE Decimal(_)
Decimal(n) ==
    IF n < 10 THEN <<DecimalDigits[n + 1]>> ELSE Decimal(n \div 10) \o <<DecimalDigits[(n % 10) + 1]>>

OwnProperties(item) ==
    IF item.t = "object" THEN item.p
    ELSE IF item.t = "array" THEN [j \in 1..Len(item.a) |-> <<Decimal(j - 1), item.a[j]>>]
    ELSE IF item.t = "string" THEN [j \in 1..Len(item.s) |-> <<Decimal(j - 1), JsStr(<<item.s[j]>>)>>]
    ELSE <<>>

\* ({...item, url: item.url || undefined})
WithUrl(item) ==
    JsObject(WithMember(OwnProperties(item), <<"u", "r", "l">>,
                        IF Falsy(UrlOf(item)) THEN Undefined ELSE UrlOf(item)))

\* the text handed to JSON.parse: extractText(response) || "[]", without fences
JsonString(data) ==
    LET extracted == extractText(data)
        text == IF extracted = <<>> THEN <<"[", "]">> ELSE extracted
    IN  trim(StripFences(text, 1))

\* fetchTrendingNews(): the completion of the promise it returns
fetchTrendingNews(r) ==
    LET response == callGemini(r)
    IN  IF response.kind = "throw" THEN Return(JsArray(<<>>))
        ELSE LET parsed == JsonParseText(JsonString(response.v))
             IN  IF parsed.kind = "throw" THEN Return(JsArray(<<>>))
                 \* parsed.map is not a function, or item.url of null: caught
                 ELSE IF parsed.v.t # "array" THEN Return(JsArray(<<>>))
                 ELSE IF \E j \in 1..Len(parsed.v.a) : parsed.v.a[j].t = "null"
                      THEN Return(JsArray(<<>>))
                 ELSE Return(JsArray([j \in 1..Len(parsed.v.a) |-> WithUrl(parsed.v.a[j])]))

\* fetchCryptoTrends(): the completion of the promise it returns
fetchCryptoTrends(r) ==
    LET response == callGemini(r)
    IN  IF response.kind = "throw" THEN Return(JsArray(<<>>))
        ELSE LET parsed == JsonParseText(JsonString(response.v))
             IN  IF parsed.kind = "throw" THEN Return(JsArray(<<>>)) ELSE parsed

(***************************************************************************)
(* Input texts: concatenations of a few tokens                             *)
(***************************************************************************)
\* all concatenations of at most n tokens of T
RECURSIVE Texts(_, _)
Texts(T, n) ==
    IF n = 0 THEN {<<>>}
    ELSE LET shorter == Texts(T, n - 1)
         IN  shorter \cup {p \o t : p \in shorter, t \in T}

MaxTimeTokens == 3
MaxMinutes == 4400

TimeTokens ==
    { <<"5">>, <<"1", "2">>, <<" ">>, <<"x">>, <<" ", "a", "g", "o">>,
      W_m, W_min, <<"M", "i", "n", "u", "t", "e", "s">>,
      W_h, W_hr, <<"H", "o", "u", "r", "s">>,
      W_d, <<"d", "a", "y", "s">>, W_yesterday }

\* the texts of the documented examples
T_5_min_ago == <<"5", " ", "m", "i", "n", " ", "a", "g", "o">>
T_3_hours_ago == <<"3", " ", "h", "o", "u", "r", "s", " ", "a", "g", "o">>
T_2_days_ago == <<"2", " ", "d", "a", "y", "s", " ", "a", "g", "o">>
T_garbage == <<"g", "a", "r", "b", "a", "g", "e">>
T_5m_ago == <<"5", "m", " ", "a", "g", "o">>

TimeTexts ==
    Texts(TimeTokens, MaxTimeTokens)
        \cup {T_5_min_ago, T_3_hours_ago, T_2_days_ago, T_garbage, T_5m_ago}

\* what item.time may hold after JSON.parse: a string, nothing, null or a number
TimeValues == {Undefined, Null, JsNum(0), JsNum(5)} \cup {JsStr(s) : s \in TimeTexts}

(***************************************************************************)
(* The time parser on one input                                            *)
(***************************************************************************)
TimeIdle == value = Undefined /\ timeResult = Return(0) /\ tpc = "idle"
LabelIdle == minutes = 0 /\ relativeLabel = "" /\ lpc = "idle"
MentionIdle == mentions = <<>> /\ mentionsValue = Real(0, 0) /\ mpc = "idle"
SeoIdle == seoItem = [title |-> Undefined, summary |-> Undefined] /\ seoResult = Return(0) /\ spc = "idle"
DecorateIdle == items = <<>> /\ decorated = Return(<<>>) /\ dpc = "idle"
DashboardIdle ==
    /\ mounted = FALSE /\ inst = 0 /\ news = <<>> /\ strategy = "null" /\ isLoading = TRUE
    /\ cacheNews = [kind |-> "absent"] /\ cacheStrategy = "absent"
    /\ fetches = <<>> /\ liveNews = [inst |-> 0, items |-> <<>>]
NewsViewIdle == filter = "All" /\ searchTerm = <<>> /\ sortMode = "RECENT" /\ filteredNews = <<>>
TrendsViewIdle ==
    /\ trendsMounted = FALSE /\ trends = <<>>
    /\ sentimentFilter = "ALL" /\ trendsSortMode = "RANK" /\ filteredTrends = <<>>
ServiceIdle == called = "news" /\ reply = [kind |-> "noKey"] /\ fetched = Return(Undefined) /\ fpc = "idle"
TrendsLifeIdle ==
    /\ trendsInst = 0 /\ trendsLoading = TRUE /\ cacheTrends = [kind |-> "absent"]
    /\ trendsFetches = <<>> /\ liveTrends = [inst |-> 0, data |-> Return(<<>>)]
    /\ crashed = FALSE
LibraryIdle ==
    /\ libraryMounted = FALSE /\ libraryItems = <<>>
    /\ storedLibrary = [kind |-> "absent"] /\ saved = 0
AppIdle == ServiceIdle /\ TrendsLifeIdle /\ LibraryIdle

InitTime ==
    /\ value \in TimeValues
    /\ timeResult = Return(0)
    /\ tpc = "start"
    /\ LabelIdle /\ MentionIdle /\ SeoIdle /\ DecorateIdle /\ DashboardIdle
    /\ NewsViewIdle /\ TrendsViewIdle /\ AppIdle

ParseRelativeTime ==
    /\ tpc = "start"
    /\ timeResult' = parseRelativeTime(value)
    /\ tpc' = "parsed"
    /\ UNCHANGED <<value, labelVars, mentionVars, seoVars, decorateVars, dashboardVars, newsViewVars, trendsViewVars, appVars>>

NextTime == ParseRelativeTime

SpecTime == InitTime /\ [][NextTime]_vars

(***************************************************************************)
(* The label formatter on one input                                        *)
(***************************************************************************)
InitLabel ==
    /\ minutes \in 0..MaxMinutes
    /\ relativeLabel = ""
    /\ lpc = "start"
    /\ TimeIdle /\ MentionIdle /\ SeoIdle /\ DecorateIdle /\ DashboardIdle
    /\ NewsViewIdle /\ TrendsViewIdle /\ AppIdle

FormatRelativeLabel ==
    /\ lpc = "start"
    /\ relativeLabel' = formatRelativeLabel(minutes)
    /\ lpc' = "labelled"
    /\ UNCHANGED <<minutes, timeVars, mentionVars, seoVars, decorateVars, dashboardVars, newsViewVars, trendsViewVars, appVars>>

NextLabel == FormatRelativeLabel

SpecLabel == InitLabel /\ [][NextLabel]_vars

(***************************************************************************)
(* The magnitude parser on one input                                       *)
(***************************************************************************)
MaxMentionTokens == 3

MentionTokens ==
    { <<"4", "5", ".", "2">>, <<"1", ".", "2">>, <<"1", "2">>, <<"3", "4", "5">>, <<"0">>,
      <<",">>, <<".">>, <<" ">>, <<"-">>, <<"K">>, <<"k">>, <<"M">>, <<"m">>, <<"x">> }

T_no_data == <<"n", "o", " ", "d", "a", "t", "a">>
T_approx_12K == <<"a", "p", "p", "r", "o", "x", ".", " ", "1", "2", "K">>

MentionTexts == Texts(MentionTokens, MaxMentionTokens) \cup {T_no_data, T_approx_12K}

InitMentions ==
    /\ mentions \in MentionTexts
    /\ mentionsValue = Real(0, 0)
    /\ mpc = "start"
    /\ TimeIdle /\ LabelIdle /\ SeoIdle /\ DecorateIdle /\ DashboardIdle
    /\ NewsViewIdle /\ TrendsViewIdle /\ AppIdle

ParseMentions ==
    /\ mpc = "start"
    /\ mentionsValue' = parseMentions(mentions)
    /\ mpc' = "parsed"
    /\ UNCHANGED <<mentions, timeVars, labelVars, seoVars, decorateVars, dashboardVars, newsViewVars, trendsViewVars, appVars>>

NextMentions == ParseMentions

SpecMentions == InitMentions /\ [][NextMentions]_vars

(***************************************************************************)
(* The SEO score of one item                                               *)
(***************************************************************************)
MaxSeoTokens == 2

\* text c, filled with the letter a up to length n (c itself when it is longer)
Pad(c, n) == c \o [i \in 1..(n - Len(c)) |-> "a"]

SeoTitleTokens == { <<"h", "o", "w">>, <<"R", "e", "p", "o", "r", "t">>, <<" ">> }
SeoSummaryTokens == { <<"t", "o", "k", "e", "n">>, <<"L", "a", "y", "e", "r", " ", "2">>, <<" ">> }

\* the beginnings of the titles and summaries: a few tokens, or one of the
\* other keywords as a word of its own
SeoTitleHeads ==
    Texts(SeoTitleTokens, MaxSeoTokens)
        \cup {TitleKeywords[a] \o <<" ">> : a \in {2, 3, 5}}
SeoSummaryHeads ==
    Texts(SeoSummaryTokens, MaxSeoTokens)
        \cup {SummaryKeywords[a] \o <<" ">> : a \in {1, 3, 4}}

\* lengths on both sides of the limits of lines 56 and 57 of NewsDashboard.tsx
SeoTitleLengths == {0, 44, 45, 70, 71}
SeoSummaryLengths == {0, 139, 140, 320, 321}

SeoTitles ==
    {JsStr(Pad(c, n)) : c \in SeoTitleHeads, n \in SeoTitleLengths} \cup {Undefined, JsNum(7)}
SeoSummaries ==
    {JsStr(Pad(c, n)) : c \in SeoSummaryHeads, n \in SeoSummaryLengths} \cup {Undefined, JsNum(7)}

InitSeo ==
    /\ seoItem \in [title : SeoTitles, summary : SeoSummaries]
    /\ seoResult = Return(0)
    /\ spc = "start"
    /\ TimeIdle /\ LabelIdle /\ MentionIdle /\ DecorateIdle /\ DashboardIdle
    /\ NewsViewIdle /\ TrendsViewIdle /\ AppIdle

ComputeSeoScore ==
    /\ spc = "start"
    /\ seoResult' = computeSeoScore(seoItem)
    /\ spc' = "scored"
    /\ UNCHANGED <<seoItem, timeVars, labelVars, mentionVars, decorateVars, dashboardVars, newsViewVars, trendsViewVars, appVars>>

NextSeo == ComputeSeoScore

SpecSeo == InitSeo /\ [][NextSeo]_vars

(***************************************************************************)
(* decorateNews on one batch                                               *)
(***************************************************************************)
MaxBatch == 2

T_how_a == <<"h", "o", "w", " ", "a">>
T_a_how == <<"a", " ", "h", "o", "w">>
T_howaa == <<"h", "o", "w", "a", "a">>
T_token_b == <<"t", "o", "k", "e", "n", " ", "b">>
T_b_token == <<"b", " ", "t", "o", "k", "e", "n">>
T_high == <<"h", "i", "g", "h">>

BatchTitles == {JsStr(T_how_a), JsStr(T_a_how), JsStr(T_howaa)}
BatchSummaries == {JsStr(T_token_b), JsStr(T_b_token)}
BatchTimes == {JsStr(T_5_min_ago), Undefined}
\* trendingScore: a number, 0, absent, a text that is no number, a number as text
BatchScores == {JsNum(8), JsNum(0), Undefined, JsStr(T_high), JsStr(<<"7">>)}

BatchItems ==
    [title : BatchTitles, summary : BatchSummaries, time : BatchTimes,
     trendingScore : BatchScores, category : {"DeFi"}]

\* the sequences of at most n elements of S
RECURSIVE SeqsUpTo(_, _)
SeqsUpTo(S, n) ==
    IF n = 0 THEN {<<>>}
    ELSE LET shorter == SeqsUpTo(S, n - 1)
         IN  shorter \cup {Append(b, x) : b \in shorter, x \in S}

InitDecorate ==
    /\ items \in SeqsUpTo(BatchItems, MaxBatch)
    /\ decorated = Return(<<>>)
    /\ dpc = "start"
    /\ TimeIdle /\ LabelIdle /\ MentionIdle /\ SeoIdle /\ DashboardIdle
    /\ NewsViewIdle /\ TrendsViewIdle /\ AppIdle

DecorateNews ==
    /\ dpc = "start"
    /\ decorated' = decorateNews(items)
    /\ dpc' = "decorated"
    /\ UNCHANGED <<items, timeVars, labelVars, mentionVars, seoVars, dashboardVars, newsViewVars, trendsViewVars, appVars>>

NextDecorate == DecorateNews

SpecDecorate == InitDecorate /\ [][NextDecorate]_vars

(***************************************************************************)
(* The news dashboard: mount, cache, fetch                                 *)
(***************************************************************************)
MaxMounts == 2
MaxFetches == 2

\* a well-formed item, and items that lack a field or hold one of another type
GoodItem ==
    [title |-> JsStr(T_how_a), summary |-> JsStr(T_token_b), time |-> JsStr(T_5_min_ago),
     trendingScore |-> JsNum(8), category |-> "DeFi"]
DefaultsItem ==
    [title |-> JsStr(T_a_how), summary |-> JsStr(T_b_token), time |-> Undefined,
     trendingScore |-> JsStr(T_high), category |-> "NFT"]
NoTitleItem == [GoodItem EXCEPT !.title = Undefined, !.trendingScore = Undefined]
NumberTimeItem == [GoodItem EXCEPT !.time = JsNum(5), !.trendingScore = JsNum(0)]

\* what fetchTrendingNews may resolve to: an array of items, [] on a failure
LiveBatches ==
    { <<>>, <<GoodItem>>, <<DefaultsItem, GoodItem>>,
      <<GoodItem, NoTitleItem>>, <<NumberTimeItem, GoodItem>> }

\* what generateDailyStrategy may resolve to: a strategy, or null on a failure
Strategies == {"brief1", "brief2"}

\* JSON.stringify of a field's value: NaN becomes null; a field that is
\* undefined is left out, and reads as undefined after JSON.parse
JsonValue(v) == IF v.t = "NaN" THEN Null ELSE v

\* the fields of an item whose values the model tags with their type
TaggedFields == {"title", "summary", "time", "trendingScore"}

\* JSON.stringify(array), as the blob localStorage keeps: every field of
\* every item
JsonStringify(batch) ==
    [kind |-> "json",
     v |-> [i \in 1..Len(batch) |->
              [k \in DOMAIN batch[i] |->
                 IF k \in TaggedFields THEN JsonValue(batch[i][k]) ELSE batch[i][k]]]]

\* what JSON.parse returns for a text that holds an object, or null
ReturnedObject == [kind |-> "object"]
ReturnedNull == [kind |-> "null"]

\* JSON.parse that rejects every text
JsonParseMutThrows(blob) == Throw

\* JSON.parse(blob): the array or the object the text holds, or a SyntaxError
JsonParse(blob) ==
    IF blob.kind = "json" THEN Return(blob.v)
    ELSE IF blob.kind = "object" THEN ReturnedObject
    ELSE Throw

\* the entries a browser may hold when the application starts: none, one an
\* earlier session stored (a batch it could decorate), one that cannot be
\* parsed, one that holds no array
InitialNewsCaches ==
    {[kind |-> "absent"], [kind |-> "garbage"], [kind |-> "object"]}
        \cup {JsonStringify(b) : b \in {c \in LiveBatches : c # <<>> /\ decorateNews(c).kind = "return"}}
InitialStrategyCaches == {"absent", "garbage"} \cup Strategies

InitDashboard ==
    /\ mounted = FALSE
    /\ inst = 0
    /\ news = <<>>
    /\ strategy = "null"
    /\ isLoading = TRUE
    /\ cacheNews \in InitialNewsCaches
    /\ cacheStrategy \in InitialStrategyCaches
    /\ fetches = <<>>
    /\ liveNews = [inst |-> 0, items |-> <<>>]
    /\ TimeIdle /\ LabelIdle /\ MentionIdle /\ SeoIdle /\ DecorateIdle
    /\ NewsViewIdle /\ TrendsViewIdle /\ AppIdle

\* fetchData up to its first await: setIsLoading(true), fetchTrendingNews()
StartFetch(i) == Append(fetches, [inst |-> i, pc |-> "news"])

\* a state setter of instance i acts only while that instance is rendered
Current(i) == mounted /\ i = inst

\* App renders NewsDashboard: a new instance with its initial state, whose
\* effect runs loadFromCache
Mount ==
    /\ ~mounted /\ ~trendsMounted /\ ~crashed
    /\ inst + trendsInst < MaxMounts
    /\ mounted' = TRUE
    /\ inst' = inst + 1
    /\ LET parsed == IF cacheNews.kind = "absent" THEN Throw ELSE JsonParse(cacheNews)
           \* decorateNews throws on a value that is no array (items.map)
           shown == IF parsed.kind = "return" THEN decorateNews(parsed.v) ELSE Throw
           hasData == shown.kind = "return"
       IN  /\ filter' = "All" /\ searchTerm' = <<>> /\ sortMode' = "RECENT"
           /\ \E run \in filteredNewsRuns(IF hasData THEN shown.v ELSE <<>>, "All", <<>>, "RECENT") :
                 news' = run.input /\ filteredNews' = run.output
           /\ strategy' = IF cacheStrategy \in Strategies THEN cacheStrategy ELSE "null"
           /\ IF hasData
              THEN isLoading' = FALSE /\ fetches' = fetches
              ELSE isLoading' = TRUE /\ fetches' = StartFetch(inst + 1)
    /\ UNCHANGED <<storageVars, liveNews>>
    /\ UNCHANGED <<timeVars, labelVars, mentionVars, seoVars, decorateVars, trendsViewVars, appVars>>

\* App renders another view
Unmount ==
    /\ mounted
    /\ mounted' = FALSE
    /\ UNCHANGED <<inst, news, strategy, isLoading, storageVars, fetches, liveNews>>
    /\ UNCHANGED <<timeVars, labelVars, mentionVars, seoVars, decorateVars>>
    /\ UNCHANGED <<newsViewVars, trendsViewVars, appVars>>

\* a click on Refresh (the button is disabled while isLoading)
handleRefresh ==
    /\ mounted
    /\ ~isLoading
    /\ Len(fetches) + Len(trendsFetches) < MaxFetches
    /\ isLoading' = TRUE
    /\ fetches' = StartFetch(inst)
    /\ UNCHANGED <<mounted, inst, news, strategy, storageVars, liveNews>>
    /\ UNCHANGED <<timeVars, labelVars, mentionVars, seoVars, decorateVars>>
    /\ UNCHANGED <<newsViewVars, trendsViewVars, appVars>>

\* what fetchData writes to the news cache, where shown is the decorated batch
StoredNewsMutDecorated(liveItems, shown) == JsonStringify(shown)

StoredNews(liveItems, shown) == JsonStringify(liveItems)

\* fetchData without the test of liveNews.length: an empty result is shown
\* and stored like any other
NewsResolvesMutShowsEmpty(f, batch) ==
    /\ fetches[f].pc = "news"
    /\ liveNews' = [inst |-> fetches[f].inst, items |-> batch]
    /\ LET i == fetches[f].inst
           shown == decorateNews(batch)
       IN  IF shown.kind = "return"
           THEN /\ IF Current(i)
                   THEN \E run \in filteredNewsRuns(shown.v, filter, searchTerm, sortMode) :
                           news' = run.input /\ filteredNews' = run.output
                   ELSE UNCHANGED <<news, filteredNews>>
                /\ cacheNews' = StoredNews(batch, shown.v)
                /\ IF Len(batch) > 0
                   THEN fetches' = [fetches EXCEPT ![f].pc = "strategy"] /\ UNCHANGED isLoading
                   ELSE /\ fetches' = [fetches EXCEPT ![f].pc = "done"]
                        /\ isLoading' = IF Current(i) THEN FALSE ELSE isLoading
           ELSE /\ isLoading' = IF Current(i) THEN FALSE ELSE isLoading
                /\ fetches' = [fetches EXCEPT ![f].pc = "done"]
                /\ UNCHANGED <<news, cacheNews, filteredNews>>
    /\ UNCHANGED <<mounted, inst, strategy, cacheStrategy, newsParamVars>>
    /\ UNCHANGED <<timeVars, labelVars, mentionVars, seoVars, decorateVars, trendsViewVars, appVars>>

\* fetchData from the result of fetchTrendingNews to its next await or its end
NewsResolves(f, batch) ==
    /\ fetches[f].pc = "news"
    /\ liveNews' = [inst |-> fetches[f].inst, items |-> batch]
    /\ LET i == fetches[f].inst
           shown == decorateNews(batch)
       IN  IF Len(batch) > 0 /\ shown.kind = "return"
           THEN /\ IF Current(i)
                   THEN \E run \in filteredNewsRuns(shown.v, filter, searchTerm, sortMode) :
                           news' = run.input /\ filteredNews' = run.output
                   ELSE UNCHANGED <<news, filteredNews>>
                /\ cacheNews' = StoredNews(batch, shown.v)
                /\ fetches' = [fetches EXCEPT ![f].pc = "strategy"]
                /\ UNCHANGED isLoading
           ELSE \* nothing new, or decorateNews threw: catch, finally
                /\ isLoading' = IF Current(i) THEN FALSE ELSE isLoading
                /\ fetches' = [fetches EXCEPT ![f].pc = "done"]
                /\ UNCHANGED <<news, cacheNews, filteredNews>>
    /\ UNCHANGED <<mounted, inst, strategy, cacheStrategy, newsParamVars>>
    /\ UNCHANGED <<timeVars, labelVars, mentionVars, seoVars, decorateVars, trendsViewVars, appVars>>

\* fetchData without its finally
StrategyResolvesMutNoFinally(f, strategyData) ==
    /\ fetches[f].pc = "strategy"
    /\ LET i == fetches[f].inst
       IN  /\ strategy' = IF strategyData # "null" /\ Current(i) THEN strategyData ELSE strategy
           /\ cacheStrategy' = IF strategyData # "null" THEN strategyData ELSE cacheStrategy
    /\ fetches' = [fetches EXCEPT ![f].pc = "done"]
    /\ UNCHANGED <<mounted, inst, news, isLoading, cacheNews, liveNews>>
    /\ UNCHANGED <<timeVars, labelVars, mentionVars, seoVars, decorateVars>>
    /\ UNCHANGED <<newsViewVars, trendsViewVars, appVars>>

\* fetchData from the result of generateDailyStrategy to its end
StrategyResolves(f, strategyData) ==
    /\ fetches[f].pc = "strategy"
    /\ LET i == fetches[f].inst
       IN  /\ strategy' = IF strategyData # "null" /\ Current(i) THEN strategyData ELSE strategy
           /\ cacheStrategy' = IF strategyData # "null" THEN strategyData ELSE cacheStrategy
           /\ isLoading' = IF Current(i) THEN FALSE ELSE isLoading
    /\ fetches' = [fetches EXCEPT ![f].pc = "done"]
    /\ UNCHANGED <<mounted, inst, news, cacheNews, liveNews>>
    /\ UNCHANGED <<timeVars, labelVars, mentionVars, seoVars, decorateVars>>
    /\ UNCHANGED <<newsViewVars, trendsViewVars, appVars>>

Next ==
    \/ Mount
    \/ Unmount
    \/ handleRefresh
    \/ \E f \in 1..Len(fetches) : \E batch \in LiveBatches : NewsResolves(f, batch)
    \/ \E f \in 1..Len(fetches) : \E strategyData \in Strategies \cup {"null"} :
          StrategyResolves(f, strategyData)

Init == InitDashboard

Spec == Init /\ [][Next]_vars

(***************************************************************************)
(* The two views: a loaded collection, and changes of the view parameters  *)
(***************************************************************************)
MaxNewsItems == 3
MaxTrendItems == 3

T_How_a == <<"H", "o", "w", " ", "a">>
T_xyz == <<"x", "y", "z">>
T_why == <<"w", "h", "y">>
T_b == <<"b">>
T_Token == <<"T", "o", "k", "e", "n">>
T_report == <<"r", "e", "p", "o", "r", "t">>

\* raw items with equal and different ages, heats, SEO scores and categories
ViewItems ==
    { [title |-> JsStr(T_How_a), summary |-> JsStr(T_token_b), time |-> JsStr(T_5_min_ago),
       trendingScore |-> JsNum(8), category |-> "DeFi"],
      [title |-> JsStr(T_xyz), summary |-> JsStr(T_Token), time |-> JsStr(T_3_hours_ago),
       trendingScore |-> JsNum(8), category |-> "DeFi"],
      [title |-> JsStr(T_why), summary |-> JsStr(T_b), time |-> JsStr(T_3_hours_ago),
       trendingScore |-> Undefined, category |-> "defi"] }

\* item A of the two-item scenario: trendingScore 8, a title of 50 characters,
\* a summary of 200 characters that contains "report"
ScenarioA ==
    [title : {JsStr(Pad(<<>>, 50)), JsStr(Pad(<<"h", "o", "w", " ">>, 50))},
     summary : {JsStr(Pad(T_report \o <<" ">>, 200)),
                JsStr(Pad(<<"a", " ">> \o T_report \o <<" ">>, 200))},
     time : {JsStr(T_3_hours_ago)}, trendingScore : {JsNum(8)}, category : {"DeFi"}]

\* item B: no trendingScore, a title and a summary of 10 characters
ScenarioB ==
    [title : {JsStr(Pad(<<>>, 10)), JsStr(Pad(<<"h", "o", "w", " ">>, 10))},
     summary : {JsStr(Pad(<<>>, 10))},
     time : {JsStr(T_5_min_ago)}, trendingScore : {Undefined}, category : {"DeFi"}]

ScenarioBatches == {<<a, b>> : a \in ScenarioA, b \in ScenarioB}

\* an item with a low upstream score, and an item without a score
LowScoreItem ==
    [title |-> JsStr(T_xyz), summary |-> JsStr(T_Token), time |-> JsStr(T_3_hours_ago),
     trendingScore |-> JsNum(2), category |-> "DeFi"]
NoScoreItem ==
    [title |-> JsStr(T_why), summary |-> JsStr(T_b), time |-> JsStr(T_3_hours_ago),
     trendingScore |-> Undefined, category |-> "DeFi"]

HotBatches ==
    { <<NoScoreItem, NoScoreItem, LowScoreItem>>, <<LowScoreItem, NoScoreItem>>,
      <<NoScoreItem, LowScoreItem>> }

NewsBatches == SeqsUpTo(ViewItems, MaxNewsItems) \cup ScenarioBatches \cup HotBatches

\* the values of the category buttons and of the search box
Categories == {"All", "DeFi", "NFT"}
SearchTerms == {<<>>, <<"h", "o", "w">>, <<"T", "O", "K">>}
SortModes == {"RECENT", "HOT", "SEO"}

\* the items handleRefresh shows when there is no data at all
FallbackTrends ==
    << [rank |-> 1, keyword |-> "#Bitcoin", mentions |-> <<"4", "5", ".", "2", "K">>,
        sentiment |-> "Bullish", change |-> 23],
       [rank |-> 2, keyword |-> "#AI", mentions |-> <<"3", "8", ".", "9", "K">>,
        sentiment |-> "Bullish", change |-> 45],
       [rank |-> 3, keyword |-> "$SOL", mentions |-> <<"3", "2", ".", "1", "K">>,
        sentiment |-> "Bullish", change |-> 12],
       [rank |-> 4, keyword |-> "LayerZero", mentions |-> <<"2", "8", ".", "4", "K">>,
        sentiment |-> "Neutral", change |-> 0 - 8] >>

Reverse(s) == [i \in 1..Len(s) |-> s[Len(s) + 1 - i]]

\* trend items with equal and different ranks, magnitudes and changes, one of
\* them with a mentions text that holds no number
TrendItems ==
    { [rank |-> 1, keyword |-> "#ETH", mentions |-> <<"1", ".", "2", "M">>,
       sentiment |-> "Bullish", change |-> 8],
      [rank |-> 2, keyword |-> "#L2", mentions |-> <<"9", "0", "0", "K">>,
       sentiment |-> "Bearish", change |-> 0 - 8],
      [rank |-> 3, keyword |-> "#DeFi", mentions |-> <<"1", ",", "2", "0", "0", "K">>,
       sentiment |-> "Neutral", change |-> 5],
      [rank |-> 2, keyword |-> "#NFT", mentions |-> <<"n", ".", "a", ".">>,
       sentiment |-> "Bullish", change |-> 0] }

TrendBatches ==
    SeqsUpTo(TrendItems, MaxTrendItems) \cup {FallbackTrends, Reverse(FallbackTrends)}

Sentiments == {"ALL", "Bullish", "Neutral", "Bearish"}
TrendsSortModes == {"RANK", "VOLUME", "MOVE"}

\* NewsDashboard after loadFromCache found a batch in the cache, or
\* TrendDetection with its collection loaded
InitViews ==
    /\ \/ /\ \E raw \in NewsBatches :
                /\ news = decorateNews(raw).v
                /\ cacheNews = JsonStringify(raw)
          /\ mounted = TRUE /\ inst = 1 /\ isLoading = FALSE
          /\ filter = "All" /\ searchTerm = <<>> /\ sortMode = "RECENT"
          /\ \E run \in filteredNewsRuns(news, "All", <<>>, "RECENT") :
                /\ run.input = news
                /\ filteredNews = run.output
          /\ TrendsViewIdle
       \/ /\ trendsMounted = TRUE
          /\ trends \in TrendBatches
          /\ sentimentFilter = "ALL" /\ trendsSortMode = "RANK"
          /\ \E run \in filteredTrendsRuns(trends, "ALL", "RANK") :
                /\ run.input = trends
                /\ filteredTrends = run.output
          /\ mounted = FALSE /\ inst = 0 /\ isLoading = TRUE
          /\ news = <<>> /\ cacheNews = [kind |-> "absent"]
          /\ NewsViewIdle
    /\ strategy = "null" /\ cacheStrategy = "absent"
    /\ fetches = <<>> /\ liveNews = [inst |-> 0, items |-> <<>>]
    /\ TimeIdle /\ LabelIdle /\ MentionIdle /\ SeoIdle /\ DecorateIdle /\ AppIdle

\* a render of NewsDashboard with the given view parameters: the useMemo runs
RenderNews(flt, search, mode) ==
    /\ filter' = flt /\ searchTerm' = search /\ sortMode' = mode
    /\ \E run \in filteredNewsRuns(news, flt, search, mode) :
          news' = run.input /\ filteredNews' = run.output
    /\ UNCHANGED <<mounted, inst, strategy, isLoading, storageVars, fetches, liveNews>>
    /\ UNCHANGED <<timeVars, labelVars, mentionVars, seoVars, decorateVars, trendsViewVars, appVars>>

\* a click on a category button (a state set to the value it has renders nothing)
setFilter(cat) == mounted /\ cat # filter /\ RenderNews(cat, searchTerm, sortMode)

\* typing in the search box
setSearchTerm(text) == mounted /\ text # searchTerm /\ RenderNews(filter, text, sortMode)

\* a click on a sort button
setSortMode(mode) == mounted /\ mode # sortMode /\ RenderNews(filter, searchTerm, mode)

\* a render of TrendDetection with the given view parameters: the useMemo runs
RenderTrends(sentiment, mode) ==
    /\ sentimentFilter' = sentiment /\ trendsSortMode' = mode
    /\ \E run \in filteredTrendsRuns(trends, sentiment, mode) :
          trends' = run.input /\ filteredTrends' = run.output
    /\ UNCHANGED trendsMounted
    /\ UNCHANGED <<timeVars, labelVars, mentionVars, seoVars, decorateVars, dashboardVars,
                   newsViewVars, appVars>>

\* a click on a sentiment button
setSentimentFilter(sentiment) ==
    trendsMounted /\ sentiment # sentimentFilter /\ RenderTrends(sentiment, trendsSortMode)

\* a click on a sort button of TrendDetection
setTrendsSortMode(mode) ==
    trendsMounted /\ mode # trendsSortMode /\ RenderTrends(sentimentFilter, mode)

NextViews ==
    \/ \E cat \in Categories : setFilter(cat)
    \/ \E text \in SearchTerms : setSearchTerm(text)
    \/ \E mode \in SortModes : setSortMode(mode)
    \/ \E sentiment \in Sentiments : setSentimentFilter(sentiment)
    \/ \E mode \in TrendsSortModes : setTrendsSortMode(mode)

SpecViews == InitViews /\ [][NextViews]_vars

(***************************************************************************)
(* TrendDetection: mount, cache, fetch                                     *)
(***************************************************************************)
\* what fetchCryptoTrends may resolve to: an array of items, [] on a
\* failure, or what JSON.parse made of a text that holds no array (an object, null)
LiveTrends ==
    {Return(b) : b \in {<<>>, Reverse(FallbackTrends)}
                        \cup {b \in SeqsUpTo(TrendItems, 1) : Len(b) = 1 /\ b[1].rank = 1}}
        \cup {ReturnedObject, ReturnedNull}

\* the entries a browser may hold when the application starts: none, one an
\* earlier session stored, one that cannot be parsed, one that holds no array
InitialTrendsCaches ==
    {[kind |-> "absent"], [kind |-> "garbage"], [kind |-> "object"]}
        \cup {JsonStringify(b) : b \in {c \in SeqsUpTo(TrendItems, 1) : Len(c) = 1}}

InitTrends ==
    /\ trendsMounted = FALSE
    /\ trendsInst = 0
    /\ trends = <<>>
    /\ trendsLoading = TRUE
    /\ sentimentFilter = "ALL" /\ trendsSortMode = "RANK" /\ filteredTrends = <<>>
    /\ cacheTrends \in InitialTrendsCaches
    /\ trendsFetches = <<>>
    /\ liveTrends = [inst |-> 0, data |-> Return(<<>>)]
    /\ crashed = FALSE
    /\ TimeIdle /\ LabelIdle /\ MentionIdle /\ SeoIdle /\ DecorateIdle /\ DashboardIdle
    /\ NewsViewIdle /\ ServiceIdle /\ LibraryIdle

\* handleRefresh up to its await: setIsLoading(true), fetchCryptoTrends();
\* the function is the one of the render it was made in, and reads the
\* trends of that render
StartTrendsFetch(i, seen) == Append(trendsFetches, [inst |-> i, pc |-> "trends", trends |-> seen])

\* a state setter of instance i acts only while that instance is rendered
CurrentTrends(i) == trendsMounted /\ i = trendsInst

\* App renders TrendDetection: a new instance with its initial state, whose
\* effect runs loadFromCache
TrendsMount ==
    /\ ~trendsMounted /\ ~mounted /\ ~crashed
    /\ inst + trendsInst < MaxMounts
    /\ trendsInst' = trendsInst + 1
    /\ sentimentFilter' = "ALL" /\ trendsSortMode' = "RANK"
    /\ LET parsed == IF cacheTrends.kind = "absent" THEN Throw ELSE JsonParse(cacheTrends)
       IN  IF parsed.kind = "throw"
           THEN \* no entry, or the catch: handleRefresh()
                /\ trendsMounted' = TRUE
                /\ trends' = <<>> /\ filteredTrends' = <<>>
                /\ trendsLoading' = TRUE
                /\ trendsFetches' = StartTrendsFetch(trendsInst + 1, <<>>)
                /\ crashed' = FALSE
           ELSE IF parsed.kind = "return"
           THEN /\ trendsMounted' = TRUE
                /\ \E run \in filteredTrendsRuns(parsed.v, "ALL", "RANK") :
                      trends' = run.input /\ filteredTrends' = run.output
                /\ trendsLoading' = FALSE
                /\ trendsFetches' = trendsFetches
                /\ crashed' = FALSE
           ELSE \* setTrends of a value that is no array: the spread in the
                \* useMemo of the next render throws
                /\ trendsMounted' = FALSE
                /\ trends' = <<>> /\ filteredTrends' = <<>>
                /\ trendsLoading' = FALSE
                /\ trendsFetches' = trendsFetches
                /\ crashed' = TRUE
    /\ UNCHANGED <<cacheTrends, liveTrends>>
    /\ UNCHANGED <<timeVars, labelVars, mentionVars, seoVars, decorateVars, dashboardVars,
                   newsViewVars, serviceVars, libraryVars>>

\* App renders another view
TrendsUnmount ==
    /\ trendsMounted
    /\ trendsMounted' = FALSE
    /\ UNCHANGED <<trends, trendsParamVars, filteredTrends, trendsLifeVars>>
    /\ UNCHANGED <<timeVars, labelVars, mentionVars, seoVars, decorateVars, dashboardVars,
                   newsViewVars, serviceVars, libraryVars>>

\* a click on Refresh of TrendDetection (the button is disabled while isLoading)
handleRefreshTrends ==
    /\ trendsMounted
    /\ ~trendsLoading
    /\ Len(fetches) + Len(trendsFetches) < MaxFetches
    /\ trendsLoading' = TRUE
    /\ trendsFetches' = StartTrendsFetch(trendsInst, trends)
    /\ UNCHANGED <<trendsViewVars, trendsInst, cacheTrends, liveTrends, crashed>>
    /\ UNCHANGED <<timeVars, labelVars, mentionVars, seoVars, decorateVars, dashboardVars,
                   newsViewVars, serviceVars, libraryVars>>

\* the argument of the setTrends that handleRefresh calls for this result,
\* where seen is the trends of its render; the empty sequence if it calls none
TrendsToSetMutAlwaysFallback(data, seen) ==
    IF data.kind = "return" /\ Len(data.v) > 0 THEN data.v
    ELSE IF data.kind # "null" THEN FallbackTrends
    ELSE <<>>

TrendsToSet(data, seen) ==
    IF data.kind = "return" /\ Len(data.v) > 0 THEN data.v
    \* [] or an object (its length is undefined): the else branch
    ELSE IF data.kind # "null" /\ seen = <<>> THEN FallbackTrends
    \* the length of null throws: catch
    ELSE <<>>

\* handleRefresh from the result of fetchCryptoTrends to its end
TrendsResolve(f, data) ==
    /\ trendsFetches[f].pc = "trends"
    /\ liveTrends' = [inst |-> trendsFetches[f].inst, data |-> data]
    /\ LET i == trendsFetches[f].inst
           some == data.kind = "return" /\ Len(data.v) > 0
           shown == TrendsToSet(data, trendsFetches[f].trends)
       IN  /\ IF CurrentTrends(i) /\ shown # <<>>
              THEN \E run \in filteredTrendsRuns(shown, sentimentFilter, trendsSortMode) :
                      trends' = run.input /\ filteredTrends' = run.output
              ELSE UNCHANGED <<trends, filteredTrends>>
           /\ cacheTrends' = IF some THEN JsonStringify(data.v) ELSE cacheTrends
           /\ trendsLoading' = IF CurrentTrends(i) THEN FALSE ELSE trendsLoading
    /\ trendsFetches' = [trendsFetches EXCEPT ![f].pc = "done"]
    /\ UNCHANGED <<trendsMounted, trendsParamVars, trendsInst, crashed>>
    /\ UNCHANGED <<timeVars, labelVars, mentionVars, seoVars, decorateVars, dashboardVars,
                   newsViewVars, serviceVars, libraryVars>>

NextTrends ==
    \/ TrendsMount
    \/ TrendsUnmount
    \/ handleRefreshTrends
    \/ \E f \in 1..Len(trendsFetches) : \E data \in LiveTrends : TrendsResolve(f, data)

SpecTrends == InitTrends /\ [][NextTrends]_vars

(***************************************************************************)
(* The application: App renders one view at a time                         *)
(***************************************************************************)
\* a session of both views: few values of the storage and of the results
AppBatches == {<<>>, <<GoodItem>>}
AppStrategies == {"brief1", "null"}
AppTrends == {Return(<<>>), Return(<<FallbackTrends[2], FallbackTrends[1]>>), ReturnedNull}

InitApp ==
    /\ mounted = FALSE /\ inst = 0 /\ news = <<>> /\ strategy = "null" /\ isLoading = TRUE
    /\ cacheNews \in {[kind |-> "absent"], [kind |-> "garbage"], JsonStringify(<<GoodItem>>)}
    /\ cacheStrategy \in {"absent", "brief1"}
    /\ fetches = <<>> /\ liveNews = [inst |-> 0, items |-> <<>>]
    /\ trendsMounted = FALSE /\ trendsInst = 0 /\ trends = <<>> /\ trendsLoading = TRUE
    /\ sentimentFilter = "ALL" /\ trendsSortMode = "RANK" /\ filteredTrends = <<>>
    /\ cacheTrends \in {[kind |-> "absent"], [kind |-> "garbage"], [kind |-> "object"],
                        JsonStringify(<<FallbackTrends[2], FallbackTrends[1]>>)}
    /\ trendsFetches = <<>>
    /\ liveTrends = [inst |-> 0, data |-> Return(<<>>)]
    /\ crashed = FALSE
    /\ TimeIdle /\ LabelIdle /\ MentionIdle /\ SeoIdle /\ DecorateIdle
    /\ NewsViewIdle /\ ServiceIdle /\ LibraryIdle

NextApp ==
    \/ Mount
    \/ Unmount
    \/ handleRefresh
    \/ \E f \in 1..Len(fetches) : \E batch \in AppBatches : NewsResolves(f, batch)
    \/ \E f \in 1..Len(fetches) : \E strategyData \in AppStrategies :
          StrategyResolves(f, strategyData)
    \/ TrendsMount
    \/ TrendsUnmount
    \/ handleRefreshTrends
    \/ \E f \in 1..Len(trendsFetches) : \E data \in AppTrends : TrendsResolve(f, data)

SpecApp == InitApp /\ [][NextApp]_vars

\* the promises of the network calls settle: a call that is outstanding is
\* eventually resolved (the fetch functions turn a rejection into a result)
NewsSettles == \E f \in 1..Len(fetches) : \E batch \in AppBatches : NewsResolves(f, batch)
StrategySettles ==
    \E f \in 1..Len(fetches) : \E strategyData \in AppStrategies : StrategyResolves(f, strategyData)
TrendsSettle == \E f \in 1..Len(trendsFetches) : \E data \in AppTrends : TrendsResolve(f, data)

\* a first visit: nothing is stored yet; what later mounts read is what the
\* fetches of the session stored
InitFirstVisit ==
    /\ InitApp
    /\ cacheNews.kind = "absent" /\ cacheStrategy = "absent" /\ cacheTrends.kind = "absent"

\* every promise of the network settles: a fetch that is under way resolves
\* or rejects, and its continuation runs
SpecAppFair ==
    /\ InitFirstVisit /\ [][NextApp]_vars
    /\ WF_vars(NewsSettles) /\ WF_vars(StrategySettles) /\ WF_vars(TrendsSettle)

(***************************************************************************)
(* The library: saveReport of the fact check, and the Library view         *)
(***************************************************************************)
MaxSaved == 4

InitLibrary ==
    /\ libraryMounted = FALSE
    /\ libraryItems = <<>>
    /\ storedLibrary = [kind |-> "absent"]
    /\ saved = 0
    /\ TimeIdle /\ LabelIdle /\ MentionIdle /\ SeoIdle /\ DecorateIdle /\ DashboardIdle
    /\ NewsViewIdle /\ TrendsViewIdle /\ ServiceIdle /\ TrendsLifeIdle

\* saveReport of the fact check view, with a result at hand: the new item
\* has a fresh id and the time of the save
saveReport ==
    /\ ~libraryMounted
    /\ saved < MaxSaved
    /\ saved' = saved + 1
    /\ LET newItem == [id |-> saved + 1, type |-> "REPORT", createdAt |-> saved + 1]
           library == IF storedLibrary.kind = "absent" THEN <<>> ELSE JsonParse(storedLibrary).v
       IN  storedLibrary' = JsonStringify(Append(library, newItem))
    /\ UNCHANGED <<libraryMounted, libraryItems>>
    /\ UNCHANGED <<timeVars, labelVars, mentionVars, seoVars, decorateVars, dashboardVars,
                   newsViewVars, trendsViewVars, serviceVars, trendsLifeVars>>

\* App renders Library: a new instance, whose effect runs loadItems
LibraryMount ==
    /\ ~libraryMounted
    /\ libraryMounted' = TRUE
    /\ libraryItems' = IF storedLibrary.kind = "absent" THEN <<>>
                       ELSE Reverse(JsonParse(storedLibrary).v)
    /\ UNCHANGED <<storedLibrary, saved>>
    /\ UNCHANGED <<timeVars, labelVars, mentionVars, seoVars, decorateVars, dashboardVars,
                   newsViewVars, trendsViewVars, serviceVars, trendsLifeVars>>

\* App renders another view
LibraryUnmount ==
    /\ libraryMounted
    /\ libraryMounted' = FALSE
    /\ UNCHANGED <<libraryItems, storedLibrary, saved>>
    /\ UNCHANGED <<timeVars, labelVars, mentionVars, seoVars, decorateVars, dashboardVars,
                   newsViewVars, trendsViewVars, serviceVars, trendsLifeVars>>

\* a click on the delete button of the item with this id
deleteItem(id) ==
    /\ libraryMounted
    /\ \E i \in 1..Len(libraryItems) : libraryItems[i].id = id
    /\ LET newItems == SelectSeq(libraryItems, LAMBDA item : item.id # id)
       IN  /\ libraryItems' = newItems
           /\ storedLibrary' = JsonStringify(newItems)
    /\ UNCHANGED <<libraryMounted, saved>>
    /\ UNCHANGED <<timeVars, labelVars, mentionVars, seoVars, decorateVars, dashboardVars,
                   newsViewVars, trendsViewVars, serviceVars, trendsLifeVars>>

NextLibrary ==
    \/ saveReport
    \/ LibraryMount
    \/ LibraryUnmount
    \/ \E id \in 1..MaxSaved : deleteItem(id)

SpecLibrary == InitLibrary /\ [][NextLibrary]_vars

(***************************************************************************)
(* The two fetch functions of the service on one reply                     *)
(***************************************************************************)
MaxReplyTokens == 3

T_object == <<"{", "\"", "k", "\"", ":", "7", "}">>
T_array == <<"[", "{", "\"", "u", "r", "l", "\"", ":", "\"", "x", "\"", "}", "]">>

ReplyTokens ==
    { FenceJson \o <<"\n">>, <<"\n">> \o Fence, Fence, <<"\n">>, <<"[">>, <<"]">>, <<",">>,
      <<"n", "u", "l", "l">>, <<"7">>, <<"x">>, T_object, T_array }

\* what a call may meet: no API key, a network error, a response that is not
\* ok, a body that is no JSON, data without candidates, data with a text
Replies ==
    {[kind |-> k] : k \in {"noKey", "networkError", "notOk", "badBody", "noCandidates"}}
        \cup {[kind |-> "text", text |-> s] : s \in Texts(ReplyTokens, MaxReplyTokens)}

InitService ==
    /\ called \in {"news", "trends"}
    /\ reply \in Replies
    /\ fetched = Return(Undefined)
    /\ fpc = "start"
    /\ TimeIdle /\ LabelIdle /\ MentionIdle /\ SeoIdle /\ DecorateIdle /\ DashboardIdle
    /\ NewsViewIdle /\ TrendsViewIdle /\ TrendsLifeIdle /\ LibraryIdle

FetchTrendingNews ==
    /\ fpc = "start" /\ called = "news"
    /\ fetched' = fetchTrendingNews(reply)
    /\ fpc' = "settled"
    /\ UNCHANGED <<called, reply, trendsLifeVars, libraryVars>>
    /\ UNCHANGED <<timeVars, labelVars, mentionVars, seoVars, decorateVars, dashboardVars,
                   newsViewVars, trendsViewVars>>

FetchCryptoTrends ==
    /\ fpc = "start" /\ called = "trends"
    /\ fetched' = fetchCryptoTrends(reply)
    /\ fpc' = "settled"
    /\ UNCHANGED <<called, reply, trendsLifeVars, libraryVars>>
    /\ UNCHANGED <<timeVars, labelVars, mentionVars, seoVars, decorateVars, dashboardVars,
                   newsViewVars, trendsViewVars>>

NextService == FetchTrendingNews \/ FetchCryptoTrends

SpecService == InitService /\ [][NextService]_vars

(***************************************************************************)
(* Properties of the annotation of a batch                                 *)
(***************************************************************************)
\* entry shown is item raw, annotated: the fields of raw, a canonical age (one
\* day when raw has no time text), a usable heat and an SEO score in range
Annotates(shown, raw) ==
    /\ shown.title = raw.title
    /\ shown.summary = raw.summary
    /\ shown.time = raw.time
    /\ shown.trendingScore = raw.trendingScore
    /\ shown.category = raw.category
    /\ shown.freshnessMinutes \in Nat
    /\ raw.time.t # "string" => shown.freshnessMinutes = 1440
    /\ shown.hotScore # 0
    /\ shown.seoScore \in 30..100

\* C1: annotating a batch never fails on malformed items: once the rendered
\* instance has received a batch that is not empty, every item of the batch
\* is on display, annotated, an item with a missing or ill-typed time, title,
\* summary or trendingScore with the defaults.
C1_MalformedItemsAnnotated ==
    (mounted /\ liveNews.inst = inst /\ liveNews.items # <<>>) =>
        /\ Len(news) = Len(liveNews.items)
        /\ \A i \in 1..Len(news) : Annotates(news[i], liveNews.items[i])

(***************************************************************************)
(* Properties of parseRelativeTime                                         *)
(***************************************************************************)
MinuteUnits == {W_minute, W_min, W_m}
HourUnits == {W_hour, W_hr, W_h}
DayUnits == {W_day, W_d}

\* the match of the pattern in the lower-cased text of the parsed value
ValueMatch == numberMatch(toLowerCase(value.s))
ParsedString == tpc = "parsed" /\ value.t = "string" /\ value.s # <<>>

\* C2: a text whose <integer><unit> match has a minute-class unit (minute, min
\* or the bare m) is parsed to the integer amount itself.
C2_MinuteClassKeepsAmount ==
    (ParsedString /\ ValueMatch.ok /\ ValueMatch.unit \in MinuteUnits)
        => timeResult = Return(parseInt(ValueMatch.amount))

\* C3: the unit is classified from the matched text only: an hour-class match
\* gives amount * 60 and a day-class match amount * 1440, whatever letters
\* occur elsewhere in the text.
C3_UnitFromMatchOnly ==
    /\ (ParsedString /\ ValueMatch.ok /\ ValueMatch.unit \in HourUnits)
          => timeResult = Return(parseInt(ValueMatch.amount) * 60)
    /\ (ParsedString /\ ValueMatch.ok /\ ValueMatch.unit \in DayUnits)
          => timeResult = Return(parseInt(ValueMatch.amount) * 1440)

\* a text holds an <integer><unit> pair iff a digit is followed, after blanks
\* only, by one of the letters every unit starts with
HasAmountUnit(s) ==
    \E i \in 1..Len(s) : \E k \in (i + 1)..Len(s) :
        /\ s[i] \in Digits
        /\ \A j \in (i + 1)..(k - 1) : s[j] = " "
        /\ s[k] \in {"d", "h", "m"}

\* C4: parseRelativeTime is total with fixed fallbacks: 1440 for an empty or
\* falsy input, 1440 for a text without <integer><unit> that contains
\* "yesterday", 720 for any other text without <integer><unit>, and a
\* non-negative integer for every string.
C4_TotalWithFallbacks ==
    tpc = "parsed" =>
        /\ Falsy(value) => timeResult = Return(1440)
        /\ (value.t = "string" /\ value.s # <<>>) =>
              LET s == toLowerCase(value.s)
              IN  /\ (~HasAmountUnit(s) /\ includes(s, W_yesterday))
                        => timeResult = Return(1440)
                  /\ (~HasAmountUnit(s) /\ ~includes(s, W_yesterday))
                        => timeResult = Return(720)
        /\ value.t = "string" => (timeResult.kind = "return" /\ timeResult.v \in Nat)

C4_Witness ==
    /\ ParsedString
    /\ ~HasAmountUnit(toLowerCase(value.s))
    /\ includes(toLowerCase(value.s), W_yesterday)
    /\ timeResult = Return(1440)

(***************************************************************************)
(* Properties of formatRelativeLabel                                       *)
(***************************************************************************)
\* the integer nearest to num / den, a half rounded up
Nearest(num, den) ==
    CHOOSE r \in 0..(num \div den + 1) :
        2 * den * r - den <= 2 * num /\ 2 * num < 2 * den * r + den

ExpectedLabel(n) ==
    IF n < 1 THEN "Just now"
    ELSE IF n < 60 THEN ToString(n) \o "m ago"
    ELSE IF Nearest(n, 60) < 24 THEN ToString(Nearest(n, 60)) \o "h ago"
    ELSE ToString(Nearest(Nearest(n, 60), 24)) \o "d ago"

\* C5: the label is "Just now" below one minute, "{minutes}m ago" below 60,
\* then "{hours}h ago" with hours = round(minutes/60) below 24 hours, else
\* "{days}d ago" with days = round(hours/24); no label shows 0h or 0d.
C5_LabelOfMinutes ==
    lpc = "labelled" =>
        /\ relativeLabel = ExpectedLabel(minutes)
        /\ minutes = 0 => relativeLabel = "Just now"
        /\ minutes = 45 => relativeLabel = "45m ago"
        /\ minutes = 180 => relativeLabel = "3h ago"
        /\ minutes = 2880 => relativeLabel = "2d ago"
        /\ relativeLabel \notin {"0h ago", "0d ago"}

C5_Witness ==
    lpc = "labelled" /\ minutes = 90 /\ relativeLabel = "2h ago"

(***************************************************************************)
(* Properties of parseMentions                                             *)
(***************************************************************************)
\* the first numeric token (an integer or a decimal) of a text: it starts at
\* the leftmost digit, or at the leftmost dot that a digit follows
TokenStarts(s) ==
    {i \in 1..Len(s) : s[i] \in Digits \/ (s[i] = "." /\ i < Len(s) /\ s[i + 1] \in Digits)}

FirstNumber(s) ==
    LET i == CHOOSE a \in TokenStarts(s) : \A b \in TokenStarts(s) : a <= b
    IN  parseFloat(SubSeq(s, i, Len(s)))

\* the power of ten a text asks for: 3 for a k, else 6 for an m, else 0
ScaleExp(s) ==
    IF \E i \in 1..Len(s) : s[i] \in {"k", "K"} THEN 3
    ELSE IF \E i \in 1..Len(s) : s[i] \in {"m", "M"} THEN 6
    ELSE 0

\* equality of two values as numbers (NaN equals nothing, itself included)
SameNumber(x, y) == x.t = "real" /\ y.t = "real" /\ x = y

\* C6: parseMentions strips the commas, takes the first numeric token and
\* scales it by 1,000 when the text holds a k, else by 1,000,000 when it holds
\* an m, else by 1: "45.2K" is 45200, "1.2M" 1200000, "12,345" 12345.
C6_ScaledFirstNumber ==
    mpc = "parsed" =>
        /\ TokenStarts(StripCommas(mentions)) # {} =>
              SameNumber(mentionsValue,
                         TimesPow10(FirstNumber(StripCommas(mentions)), ScaleExp(mentions)))
        /\ mentions = <<"4", "5", ".", "2", "K">> => SameNumber(mentionsValue, Real(45200, 0))
        /\ mentions = <<"1", ".", "2", "M">> => SameNumber(mentionsValue, Real(1200000, 0))
        /\ mentions = <<"1", "2", ",", "3", "4", "5">> => SameNumber(mentionsValue, Real(12345, 0))

\* C7: parseMentions is total: its result is a number >= 0, never NaN, and it
\* is 0 for every text without a numeric token.
C7_TotalNonNegative ==
    mpc = "parsed" =>
        /\ mentionsValue.t = "real"
        /\ mentionsValue.t = "real" => mentionsValue.num >= 0
        /\ TokenStarts(StripCommas(mentions)) = {} => SameNumber(mentionsValue, Real(0, 0))

(***************************************************************************)
(* Properties of the score synthesizer                                     *)
(***************************************************************************)
\* the trending score an item brings along: its number, or the number its
\* text spells; 0 when it brings none
OwnScore(ts) ==
    IF ts.t = "number" THEN ts.n
    ELSE IF ts.t = "string" /\ ts.s # <<>> /\ (\A i \in 1..Len(ts.s) : ts.s[i] \in Digits)
         THEN parseInt(ts.s)
    ELSE 0

Decorated == dpc = "decorated" /\ decorated.kind = "return"

\* C8: the item at 0-based index idx of a batch of n has its own trending
\* score as hotScore when that is present, numeric and not 0, and n - idx
\* otherwise; so no hotScore is 0, and of two items on the fallback the
\* earlier has the strictly higher hotScore.
C8_HotScoreRule ==
    Decorated =>
        LET n == Len(items)
            out == decorated.v
        IN  /\ Len(out) = n
            /\ \A i \in 1..n :
                  /\ out[i].hotScore =
                        (IF OwnScore(items[i].trendingScore) # 0
                         THEN OwnScore(items[i].trendingScore)
                         ELSE n - (i - 1))
                  /\ out[i].hotScore # 0
            /\ \A i, j \in 1..n :
                  (/\ i < j
                   /\ OwnScore(items[i].trendingScore) = 0
                   /\ OwnScore(items[j].trendingScore) = 0)
                      => out[i].hotScore > out[j].hotScore

C8_Witness ==
    /\ Decorated
    /\ Len(items) = 2
    /\ items[1].trendingScore = Undefined
    /\ items[2].trendingScore = JsNum(0)
    /\ decorated.v[1].hotScore = 2
    /\ decorated.v[2].hotScore = 1

\* w occurs in s as a whole word, in any case of letters
ContainsWord(s, w) ==
    \E i \in 1..(Len(s) - Len(w) + 1) :
        /\ (i = 1 \/ s[i - 1] \notin WordChars)
        /\ (i + Len(w) - 1 = Len(s) \/ s[i + Len(w)] \notin WordChars)
        /\ toLowerCase(SubSeq(s, i, i + Len(w) - 1)) = w

HasKeyword(s, words) == \E a \in 1..Len(words) : ContainsWord(s, words[a])

B(cond) == IF cond THEN 1 ELSE 0

\* the score of a title of titleLength characters and a summary of
\* summaryLength characters that hold a keyword (1) or none (0)
ExpectedSeoScore(titleLength, titleWord, summaryLength, summaryWord) ==
    LET sum == 40 + 20 * B(45 <= titleLength /\ titleLength <= 70)
                  + 25 * B(140 <= summaryLength /\ summaryLength <= 320)
                  + 5 * titleWord
                  + 5 * summaryWord
    IN  IF sum < 30 THEN 30 ELSE IF sum > 100 THEN 100 ELSE sum

ScoredStrings ==
    spc = "scored" /\ seoItem.title.t = "string" /\ seoItem.summary.t = "string"

\* C9: seoScore is 40, plus 20 for a title of 45 to 70 characters, plus 25 for
\* a summary of 140 to 320 characters, plus 5 for a title keyword and 5 for a
\* summary keyword as whole words in any case, clamped to 30..100; the length
\* limits are inclusive, and a 45-character title with "guide" and a
\* 140-character summary with "token" score 95.
C9_SeoScoreFormula ==
    ScoredStrings =>
        LET title == seoItem.title.s
            summary == seoItem.summary.s
            titleWord == B(HasKeyword(title, TitleKeywords))
            summaryWord == B(HasKeyword(summary, SummaryKeywords))
            words == 5 * titleWord + 5 * summaryWord
        IN  /\ seoResult =
                  Return(ExpectedSeoScore(Len(title), titleWord, Len(summary), summaryWord))
            /\ seoResult.v \in 30..100
            /\ (Len(title) \in {45, 70} /\ Len(summary) \in {140, 320})
                  => seoResult.v = 40 + 20 + 25 + words
            /\ (Len(title) \in {44, 71} /\ Len(summary) \in {139, 321})
                  => seoResult.v = 40 + words
            /\ (/\ Len(title) = 45 /\ ContainsWord(title, TitleKeywords[3])
                 /\ Len(summary) = 140 /\ ContainsWord(summary, SummaryKeywords[5]))
                  => seoResult.v = 95

C9_Witness ==
    /\ ScoredStrings
    /\ Len(seoItem.title.s) = 45 /\ ContainsWord(seoItem.title.s, TitleKeywords[3])
    /\ Len(seoItem.summary.s) = 140 /\ ContainsWord(seoItem.summary.s, SummaryKeywords[5])
    /\ seoResult = Return(95)

\* two items agree in what the SEO score looks at
SameSeoFeatures(a, b) ==
    /\ a.title.t = "string" /\ b.title.t = "string"
    /\ a.summary.t = "string" /\ b.summary.t = "string"
    /\ Len(a.title.s) = Len(b.title.s)
    /\ HasKeyword(a.title.s, TitleKeywords) = HasKeyword(b.title.s, TitleKeywords)
    /\ Len(a.summary.s) = Len(b.summary.s)
    /\ HasKeyword(a.summary.s, SummaryKeywords) = HasKeyword(b.summary.s, SummaryKeywords)

\* C10: two items of a batch whose titles agree in length and keyword
\* presence, and whose summaries do, have the same seoScore, wherever they
\* stand in the batch and whatever their other fields hold.
C10_SeoScoreOfFeaturesOnly ==
    Decorated =>
        \A i, j \in 1..Len(items) :
            SameSeoFeatures(items[i], items[j])
                => decorated.v[i].seoScore = decorated.v[j].seoScore

C10_Witness ==
    /\ Decorated
    /\ Len(items) = 2
    /\ SameSeoFeatures(items[1], items[2])
    /\ items[1].title = JsStr(T_how_a) /\ items[2].title = JsStr(T_a_how)
    /\ items[1].summary # items[2].summary
    /\ items[1].time # items[2].time
    /\ items[1].trendingScore # items[2].trendingScore
    /\ decorated.v[1].seoScore = decorated.v[2].seoScore

(***************************************************************************)
(* Properties of the news view                                             *)
(***************************************************************************)
\* text contains term, letters compared without regard to their case
ContainsIgnoringCase(text, term) ==
    \E k \in 0..(Len(text) - Len(term)) :
        \A j \in 1..Len(term) : ToLowerChar(text[k + j]) = ToLowerChar(term[j])

\* item passes category filter flt and search term search
Passes(item, flt, search) ==
    /\ flt = "All" \/ item.category = flt
    /\ \/ search = <<>>
       \/ ContainsIgnoringCase(item.title.s, search)
       \/ ContainsIgnoringCase(item.summary.s, search)

\* the elements of s that pass, in the order of s
Passing(s, flt, search) ==
    LET pass(item) == Passes(item, flt, search)
    IN  SelectSeq(s, pass)

\* C11: the news filter keeps an item if and only if the category filter is
\* "All" or is exactly the item's category, and the search term is empty or
\* occurs in the title or the summary without regard to case; nothing else
\* (source, status, scores, sort mode) decides whether an item is shown.
C11_NewsFilterMembership ==
    mounted =>
        /\ \A i \in 1..Len(news) :
              (\E j \in 1..Len(filteredNews) : filteredNews[j] = news[i])
                  <=> Passes(news[i], filter, searchTerm)
        /\ \A j \in 1..Len(filteredNews) : \E i \in 1..Len(news) : news[i] = filteredNews[j]

C11_Witness ==
    /\ mounted
    /\ filter = "DeFi"
    /\ searchTerm = <<"T", "O", "K">>
    /\ Len(news) = 3
    /\ Len(filteredNews) = 1
    /\ filteredNews[1].summary = JsStr(T_Token)
    /\ \E i \in 1..3 : news[i].category = "defi"

\* s is in the order of sort mode mode
InOrder(s, mode) ==
    \A i, j \in 1..Len(s) :
        i < j =>
            CASE mode = "RECENT" -> s[i].freshnessMinutes <= s[j].freshnessMinutes
              [] mode = "HOT" ->
                    /\ s[i].hotScore >= s[j].hotScore
                    /\ s[i].hotScore = s[j].hotScore
                          => s[i].freshnessMinutes <= s[j].freshnessMinutes
              [] mode = "SEO" ->
                    /\ s[i].seoScore >= s[j].seoScore
                    /\ s[i].seoScore = s[j].seoScore
                          => s[i].freshnessMinutes <= s[j].freshnessMinutes

\* C12: the news output is non-decreasing in freshnessMinutes under RECENT;
\* under HOT it is non-increasing in hotScore and, among equal hotScores,
\* non-decreasing in freshnessMinutes; under SEO the same with seoScore.
C12_NewsOutputInOrder == mounted => InOrder(filteredNews, sortMode)

C12_Witness ==
    /\ mounted
    /\ sortMode = "HOT"
    /\ Len(filteredNews) = 3
    /\ filteredNews # news
    /\ filteredNews[1].hotScore = filteredNews[2].hotScore
    /\ filteredNews[1].freshnessMinutes < filteredNews[2].freshnessMinutes
    /\ filteredNews[2].hotScore > filteredNews[3].hotScore

\* a and b compare equal under sort mode mode
ComparesEqual(a, b, mode) ==
    /\ a.freshnessMinutes = b.freshnessMinutes
    /\ mode = "HOT" => a.hotScore = b.hotScore
    /\ mode = "SEO" => a.seoScore = b.seoScore

\* the elements of s that compare equal to x, in the order of s
EqualTo(x, s, mode) ==
    LET same(y) == ComparesEqual(x, y, mode)
    IN  SelectSeq(s, same)

\* C13: news sorting is stable: under every sort mode the items that compare
\* equal (same freshnessMinutes; under HOT or SEO the same score as well)
\* stand in the output in the order in which they arrived in the batch.
C13_NewsSortStable ==
    mounted =>
        \A i \in 1..Len(news) :
            EqualTo(news[i], filteredNews, sortMode)
                = EqualTo(news[i], Passing(news, filter, searchTerm), sortMode)

C13_Witness ==
    /\ mounted
    /\ sortMode = "SEO"
    /\ Len(filteredNews) = 3
    /\ filteredNews[2] # filteredNews[3]
    /\ ComparesEqual(filteredNews[2], filteredNews[3], "SEO")
    /\ filteredNews[1] = news[3]
    /\ filteredNews[2] = news[1]

\* how often x occurs in s
Count(x, s) == Cardinality({i \in 1..Len(s) : s[i] = x})

\* a holds the elements of b, each as often as b does
SameElements(a, b) ==
    /\ Len(a) = Len(b)
    /\ \A i \in 1..Len(b) : Count(b[i], a) = Count(b[i], b)

\* the trend items of s with sentiment sentiment (all of s under "ALL"), in the order of s
OfSentiment(s, sentiment) ==
    LET pass(t) == sentiment = "ALL" \/ t.sentiment = sentiment
    IN  SelectSeq(s, pass)

\* C14: a run of the news or the trends view pipeline never changes its input:
\* whatever filter, search or sort parameter is changed, the collection (news,
\* trends) holds the same items in the same order afterwards, and the output
\* holds exactly the items of the collection that pass the filter, each once.
C14_PipelinesKeepTheirInput ==
    [][ /\ news' = news
        /\ trends' = trends
        /\ mounted => SameElements(filteredNews', Passing(news, filter', searchTerm'))
        /\ trendsMounted => SameElements(filteredTrends', OfSentiment(trends, sentimentFilter'))
      ]_vars

C14_Witness ==
    /\ trendsMounted
    /\ sentimentFilter = "ALL"
    /\ trendsSortMode = "VOLUME"
    /\ trends = Reverse(FallbackTrends)
    /\ filteredTrends = FallbackTrends

\* C15: filtering is idempotent and so is a re-run: the news filter applied
\* to the output of the pipeline keeps all of it, the pipeline run on its own
\* output returns it unchanged, and another run on the same collection with the
\* same view parameters returns the same output.
C15_NewsPipelineIdempotent ==
    mounted =>
        /\ LET again == ArrayFilter(<<filteredNews>>, 1,
                            [i \in 1..Len(filteredNews) |->
                                newsKeeps(filteredNews[i], filter, toLowerCase(searchTerm))])
           IN  again.heap[again.ref] = filteredNews
        /\ \A run \in filteredNewsRuns(filteredNews, filter, searchTerm, sortMode) :
              run.output = filteredNews
        /\ \A run \in filteredNewsRuns(news, filter, searchTerm, sortMode) :
              run.output = filteredNews

C15_Witness ==
    /\ mounted
    /\ filter = "DeFi"
    /\ searchTerm = <<"h", "o", "w">>
    /\ sortMode = "RECENT"
    /\ Len(news) = 3
    /\ Len(filteredNews) = 2
    /\ filteredNews[1] = filteredNews[2]

\* the scenario's batch [A, B], annotated
ScenarioNews == {decorateNews(batch).v : batch \in ScenarioBatches}

\* the scenario's batch is on display, both items shown
ScenarioShown == mounted /\ news \in ScenarioNews /\ Len(filteredNews) = 2

\* The two-item scenario as the spec has it: A (trendingScore 8, a title of 50
\* characters, a summary of 200 characters containing "report") stands before
\* B (no trendingScore, title and summary of 10 characters) under HOT and
\* under SEO, with a seoScore of at least 90 for A and of 40 for B.
C16_ScenarioAsStated ==
    ScenarioShown =>
        /\ sortMode \in {"HOT", "SEO"} => filteredNews = news
        /\ news[1].hotScore = 8 /\ news[1].hotScore > news[2].hotScore
        /\ news[1].seoScore >= 90
        /\ news[2].seoScore = 40

\* item holds no keyword: none of the title keywords in its title, none of
\* the summary keywords in its summary
NoKeyword(item) ==
    /\ ~HasKeyword(item.title.s, TitleKeywords)
    /\ ~HasKeyword(item.summary.s, SummaryKeywords)

\* C16: in the two-item scenario HOT places A before B (8 against B's
\* fallback 1) and SEO places A before B; A's seoScore is at least 85, and is
\* 85 when A holds no keyword ("report" is a title keyword and earns nothing
\* in the summary); B's seoScore is 40 when B holds no keyword.
C16_ScenarioOrder ==
    ScenarioShown =>
        /\ sortMode \in {"HOT", "SEO"} => filteredNews = news
        /\ news[1].hotScore = 8 /\ news[2].hotScore = 1
        /\ news[1].seoScore >= 85
        /\ NoKeyword(news[1]) => news[1].seoScore = 85
        /\ NoKeyword(news[2]) => news[2].seoScore = 40

C16_Witness ==
    /\ ScenarioShown
    /\ sortMode = "SEO"
    /\ filteredNews = news
    /\ news[1].seoScore = 85
    /\ news[2].seoScore = 40
    /\ news[1].freshnessMinutes > news[2].freshnessMinutes

(***************************************************************************)
(* Properties of the trends view                                           *)
(***************************************************************************)
\* the parsed magnitude of a mentions text: a text without a number counts 0
Magnitude(m) ==
    LET x == parseMentions(m)
    IN  IF x.t = "NaN" THEN Real(0, 0) ELSE x

\* the number x is less than the number y
LessThan(x, y) == Minus(x, y).num < 0

\* a stands before b in the order of trends sort mode mode, or ties with it
NotAfter(a, b, mode) ==
    CASE mode = "RANK" -> a.rank <= b.rank
      [] mode = "VOLUME" -> ~LessThan(Magnitude(a.mentions), Magnitude(b.mentions))
      [] mode = "MOVE" -> Abs(a.change) >= Abs(b.change)

\* C17: the trends output holds exactly the items whose sentiment is the
\* sentiment filter (all items under "ALL"), ordered by the selected mode:
\* RANK by ascending rank, VOLUME by descending parsed mentions magnitude,
\* MOVE by descending absolute value of the change.
C17_TrendsFilteredAndOrdered ==
    trendsMounted =>
        /\ SameElements(filteredTrends, OfSentiment(trends, sentimentFilter))
        /\ \A i, j \in 1..Len(filteredTrends) :
              i < j => NotAfter(filteredTrends[i], filteredTrends[j], trendsSortMode)

\* s in the order p of its positions
Permuted(s, p) == [k \in 1..Len(s) |-> s[p[k]]]

\* C18: the VOLUME order does not depend on the order of the input: the batch
\* with mentions "45.2K", "38.9K", "32.1K", "28.4K" comes out in that order,
\* and every permutation of a batch comes out as the batch itself does.
C18_VolumeOrderIndependent ==
    (trendsMounted /\ trendsSortMode = "VOLUME") =>
        /\ (trends = FallbackTrends /\ sentimentFilter = "ALL")
              => filteredTrends = FallbackTrends
        /\ \A p \in Orders(Len(trends)) :
              \A run \in filteredTrendsRuns(Permuted(trends, p), sentimentFilter, "VOLUME") :
                  run.output = filteredTrends

\* a and b tie on the first key of trends sort mode mode
TieOnFirstKey(a, b, mode) ==
    CASE mode = "RANK" -> a.rank = b.rank
      [] mode = "VOLUME" -> Magnitude(a.mentions) = Magnitude(b.mentions)
      [] mode = "MOVE" -> Abs(a.change) = Abs(b.change)

\* C19: the rank is the tie-break key of the trends order: items with equal
\* parsed mentions under VOLUME, or with equal absolute change under MOVE,
\* stand in ascending order of rank.
C19_RankBreaksTies ==
    trendsMounted =>
        \A i, j \in 1..Len(filteredTrends) :
            (i < j /\ TieOnFirstKey(filteredTrends[i], filteredTrends[j], trendsSortMode))
                => filteredTrends[i].rank <= filteredTrends[j].rank

(***************************************************************************)
(* Properties of the fetch                                                 *)
(***************************************************************************)
\* this step is the end of fetchData number f on an empty collection
EmptyFetchEnds(f) ==
    /\ fetches[f].pc = "news"
    /\ fetches'[f].pc = "done"
    /\ liveNews' = [inst |-> fetches[f].inst, items |-> <<>>]

\* C20: when the news fetch returns an empty collection, the view keeps what
\* it showed: the news on display, the strategy on display and both cache
\* entries are what they were before, and loading ends (no error state).
C20_EmptyFetchKeepsState ==
    [][ \A f \in 1..Len(fetches) :
            EmptyFetchEnds(f) =>
                /\ news' = news
                /\ filteredNews' = filteredNews
                /\ strategy' = strategy
                /\ cacheNews' = cacheNews
                /\ cacheStrategy' = cacheStrategy
                /\ Current(fetches[f].inst) => ~isLoading'
      ]_vars

C20_Witness ==
    /\ mounted
    /\ liveNews = [inst |-> inst, items |-> <<>>]
    /\ \E f \in 1..Len(fetches) : fetches[f] = [inst |-> inst, pc |-> "done"]
    /\ news # <<>>
    /\ filteredNews = news
    /\ strategy \in Strategies
    /\ cacheNews.kind = "json"
    /\ cacheStrategy \in Strategies
    /\ ~isLoading

(***************************************************************************)
(* Properties of the service functions                                     *)
(***************************************************************************)
\* the reply is one of the failures the functions absorb: no API key, a
\* network error, a response that is not ok, no text, or a text that is not
\* a JSON array
FailedReply(r) ==
    \/ r.kind # "text"
    \/ trim(r.text) = <<>>
    \/ LET parsed == JsonParseText(trim(StripFences(trim(r.text), 1)))
       IN  parsed.kind = "throw" \/ parsed.v.t # "array"

\* C21: fetchTrendingNews and fetchCryptoTrends never reject and always
\* resolve to an array; on a missing API key, a network error, a response
\* that is not ok, an empty model response or a text that is not a valid JSON
\* array, the array is empty.
C21_FetchesResolveToArrays ==
    fpc = "settled" =>
        /\ fetched.kind = "return"
        /\ fetched.v.t = "array"
        /\ FailedReply(reply) => fetched.v.a = <<>>

\* the same of fetchTrendingNews alone
C21_NewsResolvesToArray == called = "news" => C21_FetchesResolveToArrays

(***************************************************************************)
(* Properties of the life cycle of the two views                           *)
(***************************************************************************)
\* the calls of fetchTrendingNews, resp. fetchCryptoTrends, not yet settled
OutstandingNews == {f \in 1..Len(fetches) : fetches[f].pc = "news"}
OutstandingTrends == {f \in 1..Len(trendsFetches) : trendsFetches[f].pc = "trends"}

\* C22: at most one fetch is outstanding per view at any time, across mount,
\* Refresh, and navigation to another view and back: no call of
\* fetchTrendingNews (fetchCryptoTrends) starts while an earlier call of the
\* same view has not completed.
C22_OneFetchPerView ==
    /\ Cardinality(OutstandingNews) <= 1
    /\ Cardinality(OutstandingTrends) <= 1

\* the same of the calls of the instance that is rendered
C22_OneFetchPerInstance ==
    /\ Cardinality({f \in OutstandingNews : fetches[f].inst = inst}) <= 1
    /\ Cardinality({f \in OutstandingTrends : trendsFetches[f].inst = trendsInst}) <= 1

\* the entry cannot be parsed into a collection of items
Unusable(blob) == blob.kind \in {"garbage", "object"}

\* C23: a cached entry that cannot be parsed into an item collection is
\* never handed to the pipeline: the view that met it at its mount shows no
\* collection made from it, no exception escapes, and the view has started
\* a fetch.  (An entry that is unusable now was unusable at every mount so
\* far: only a fetch that brought items writes the entry.)
C23_UnusableCacheFallsBack ==
    /\ ~crashed
    /\ Unusable(cacheNews) /\ inst > 0 =>
          /\ news = <<>>
          /\ \E f \in 1..Len(fetches) : fetches[f].inst = inst
    /\ Unusable(cacheTrends) /\ trendsInst > 0 =>
          /\ trends \in {<<>>, FallbackTrends}
          /\ \E f \in 1..Len(trendsFetches) : trendsFetches[f].inst = trendsInst

\* the same of the news view alone
C23_NewsCacheFallsBack ==
    Unusable(cacheNews) /\ inst > 0 =>
        /\ news = <<>>
        /\ \E f \in 1..Len(fetches) : fetches[f].inst = inst

\* the fields decorateNews adds to an item, and an item without them
DerivedFields == {"freshnessMinutes", "hotScore", "seoScore", "relativeLabel"}
RawItem(item) == [k \in DOMAIN item \ DerivedFields |-> item[k]]
RawItems(batch) == [i \in 1..Len(batch) |-> RawItem(batch[i])]

\* C24: derived fields are never persisted: the news cache holds items
\* without derived fields, and after a fetch that brought items it holds the
\* raw collection as received; the derived fields shown are those computed
\* from the raw items of the displayed batch.
C24_DerivedFieldsNotStored ==
    /\ cacheNews.kind = "json" =>
          \A i \in 1..Len(cacheNews.v) : DOMAIN cacheNews.v[i] \cap DerivedFields = {}
    /\ Len(liveNews.items) > 0 /\ decorateNews(liveNews.items).kind = "return" =>
          cacheNews = JsonStringify(liveNews.items)
    /\ news = decorateNews(RawItems(news)).v

C24_Witness ==
    /\ mounted /\ news # <<>> /\ liveNews.inst = inst
    /\ cacheNews = JsonStringify(liveNews.items)
    /\ \E i \in 1..Len(news) : news[i].hotScore # 8

\* C25: the initial load is cache-first in both views.  On mount, if the
\* cache holds a parsable collection, that collection is displayed, loading
\* ends and no fetch is started; the mount starts a fetch (exactly one) only
\* when the entry is absent or unusable; every other fetch starts from a
\* click on Refresh, which is possible only when the view is not loading.
C25_CacheFirst ==
    [][ /\ inst' = inst + 1 =>
              /\ cacheNews.kind = "json" =>
                    RawItems(news') = cacheNews.v /\ ~isLoading' /\ fetches' = fetches
              /\ fetches' # fetches =>
                    /\ cacheNews.kind = "absent" \/ Unusable(cacheNews)
                    /\ fetches' = Append(fetches, [inst |-> inst', pc |-> "news"])
                    /\ isLoading'
        /\ trendsInst' = trendsInst + 1 =>
              /\ cacheTrends.kind = "json" =>
                    trends' = cacheTrends.v /\ ~trendsLoading' /\ trendsFetches' = trendsFetches
              /\ trendsFetches' # trendsFetches =>
                    /\ cacheTrends.kind = "absent" \/ Unusable(cacheTrends)
                    /\ trendsFetches'
                          = Append(trendsFetches, [inst |-> trendsInst', pc |-> "trends", trends |-> <<>>])
                    /\ trendsLoading'
        /\ inst' = inst /\ Len(fetches') > Len(fetches) => mounted /\ ~isLoading
        /\ trendsInst' = trendsInst /\ Len(trendsFetches') > Len(trendsFetches) =>
              trendsMounted /\ ~trendsLoading
      ]_vars

\* the trends view has shown its cached collection without a fetch, after the
\* news view found no usable entry and fetched
C25_Witness ==
    /\ trendsMounted /\ ~trendsLoading /\ trendsFetches = <<>> /\ trends = cacheTrends.v
    /\ inst = 1 /\ Len(fetches) = 1

\* handleRefresh call f of TrendDetection ends in this step on an empty result
EmptyTrendsFetchEnds(f) ==
    /\ f <= Len(trendsFetches)
    /\ trendsFetches[f].pc = "trends"
    /\ trendsFetches'[f].pc = "done"
    /\ liveTrends'.data = Return(<<>>)

\* C26: when a trends fetch returns an empty result, a non-empty displayed
\* collection is left unchanged; if nothing is displayed, the built-in
\* fallback of four items is shown; the trends cache is not written in
\* either case.  (The setters of an instance that is no longer rendered do
\* nothing.)
C26_EmptyTrendsFetch ==
    [][ \A f \in 1..(MaxMounts + MaxFetches) :
          EmptyTrendsFetchEnds(f) =>
              /\ cacheTrends' = cacheTrends
              /\ trends' = IF CurrentTrends(trendsFetches[f].inst) /\ trends = <<>>
                           THEN FallbackTrends ELSE trends
              /\ Len(FallbackTrends) = 4
      ]_vars

\* an empty result has arrived in the rendered instance, which goes on to
\* show the collection it had
C26_Witness ==
    /\ trendsMounted /\ ~trendsLoading
    /\ liveTrends = [inst |-> trendsInst, data |-> Return(<<>>)]
    /\ trends # <<>> /\ trends # FallbackTrends

(***************************************************************************)
(* Properties of the library                                               *)
(***************************************************************************)
NewestFirst(s) == \A i, j \in 1..Len(s) : i < j => s[i].createdAt > s[j].createdAt

\* C27: the Library shows the saved items newest first, after any sequence
\* of saveReport, deleteItem and unmount / remount of the Library.
C27_LibraryNewestFirst == libraryMounted => NewestFirst(libraryItems)

(***************************************************************************)
(* Properties of the HOT order                                             *)
(***************************************************************************)
\* the item has a trendingScore in (0, 10]; the item is on the fallback
UpstreamScored(item) ==
    item.trendingScore.t = "number" /\ item.trendingScore.n > 0 /\ item.trendingScore.n <= 10
OnFallback(item) == OwnScore(item.trendingScore) = 0

\* batchSize - index of a displayed item that is on the fallback
FallbackValue(item) ==
    LET k == CHOOSE k \in 1..Len(news) : news[k] = item
    IN  Len(news) - (k - 1)

\* C28: under HOT sort an upstream score always wins over the positional
\* fallback: of two items, one with a trendingScore in (0, 10] and one on
\* the fallback (batchSize - index), the former is placed first, for every
\* batch size.
C28_UpstreamBeforeFallback ==
    mounted /\ sortMode = "HOT" =>
        \A i, j \in 1..Len(filteredNews) :
            UpstreamScored(filteredNews[i]) /\ OnFallback(filteredNews[j]) => i < j

\* C28, amended: the item with the upstream score is placed first when its
\* score is greater than the fallback value of the other item, and the item
\* on the fallback is placed first when its fallback value is greater.
C28_ScoreAgainstFallback ==
    mounted /\ sortMode = "HOT" =>
        \A i, j \in 1..Len(filteredNews) :
            UpstreamScored(filteredNews[i]) /\ OnFallback(filteredNews[j]) =>
                /\ filteredNews[i].trendingScore.n > FallbackValue(filteredNews[j]) => i < j
                /\ filteredNews[i].trendingScore.n < FallbackValue(filteredNews[j]) => j < i

\* an item on the fallback stands before an item with an upstream score
C28_Witness ==
    /\ mounted /\ sortMode = "HOT"
    /\ \E i, j \in 1..Len(filteredNews) :
          /\ j < i
          /\ UpstreamScored(filteredNews[i]) /\ OnFallback(filteredNews[j])
          /\ filteredNews[i].trendingScore.n < FallbackValue(filteredNews[j])

(***************************************************************************)
(* Properties of the cache and the display                                 *)
(***************************************************************************)
\* C29: cache and display are consistent in the news view: whenever the
\* view is mounted and not loading and the news cache holds a parsable
\* collection, the raw fields of the displayed items equal the cached
\* collection item for item, also when a fetch that started before an
\* unmount completes after a remount.
C29_CacheMatchesDisplay ==
    mounted /\ ~isLoading /\ cacheNews.kind = "json" => RawItems(news) = cacheNews.v

\* the same as long as every fetch so far is one of the rendered instance
C29_SingleInstance ==
    (\A f \in 1..Len(fetches) : fetches[f].inst = inst) => C29_CacheMatchesDisplay

(***************************************************************************)
(* Loading ends                                                            *)
(***************************************************************************)
\* fetchData call f is under way; it has ended and the instance that made
\* it, if it is the rendered one, is not loading
NewsFetchRuns(f) == f <= Len(fetches) /\ fetches[f].pc # "done"
NewsFetchOver(f) ==
    /\ f <= Len(fetches) /\ fetches[f].pc = "done"
    /\ mounted /\ fetches[f].inst = inst => ~isLoading
TrendsFetchRuns(f) == f <= Len(trendsFetches) /\ trendsFetches[f].pc # "done"
TrendsFetchOver(f) ==
    /\ f <= Len(trendsFetches) /\ trendsFetches[f].pc = "done"
    /\ trendsMounted /\ trendsFetches[f].inst = trendsInst => ~trendsLoading

\* C30: loading always ends: provided the network calls settle, every fetch
\* started by a mount or by Refresh in either view is eventually followed by
\* isLoading = false of its view, and a rendered view does not stay loading.
C30_LoadingEnds ==
    /\ \A f \in 1..(MaxMounts + MaxFetches) :
          /\ NewsFetchRuns(f) ~> NewsFetchOver(f)
          /\ TrendsFetchRuns(f) ~> TrendsFetchOver(f)
    /\ (mounted /\ isLoading) ~> (~mounted \/ ~isLoading)
    /\ (trendsMounted /\ trendsLoading) ~> (~trendsMounted \/ ~trendsLoading)

\* a fetch of each view has run to its end in the instance that made it
C30_Witness ==
    /\ mounted /\ ~isLoading
    /\ \E f \in 1..Len(fetches) : fetches[f].inst = inst /\ fetches[f].pc = "done"
    /\ \E f \in 1..Len(trendsFetches) : trendsFetches[f].pc = "done"

====
